---- MODULE Spec2Model ----
(***************************************************************************)
(* Verification model of bin/gt_commands.py (graphite-cli-wrapper): the    *)
(* stack listing reader, the stack comment line codec, the stack comment   *)
(* codec and the submit command.                                           *)
(*                                                                         *)
(* Text is modelled as a sequence of one-character strings, so that        *)
(* formatting and parsing are computed character by character.  The        *)
(* module is plain ASCII; the glyphs of the source are written as:         *)
(*     "+"  U+251C  box drawings light vertical and right  (tree branch)   *)
(*     "^"  U+2514  box drawings light up and right        (tree last)     *)
(*     "-"  U+2500  box drawings light horizontal          (tree line)     *)
(*     "<" "~"  U+2B05 U+FE0F  leftwards arrow, emoji presentation         *)
(*     "o"  U+25EF  large circle    (node of the stack listing)            *)
(*     "@"  U+25C9  fisheye         (current node of the stack listing)    *)
(*     "|"  U+2502  box drawings light vertical            (branching)     *)
(*     "-7" U+2500 U+2510  horizontal, down and left       (branching)     *)
(*     "W"  the text "(i) The Graphite CLI version you have installed"     *)
(*     "T"  the text "- Team Graphite :)"                                  *)
(* "a", "b", "&", "x" stand for letters, punctuation and emoji: characters *)
(* that no pattern of the source treats specially.                         *)
(***************************************************************************)
EXTENDS Integers, Sequences, FiniteSets, TLC

VARIABLES
    lpc,        \* line codec: "off" | "args" | "line" | "parsed"
    largs,      \* arguments of _format_stack_line
    line,       \* the text of one comment line
    anomaly,    \* TRUE once the arrow of the current marker was removed by hand
    parsed,     \* result of _parse_stack_line(line)
    cpc,        \* comment codec: "off" | "input" | "comment" | "parsed"
    cstack,     \* the stack given to format_stack_comment
    cpr_info,   \* the PR directory given to format_stack_comment
    ccurrent,   \* the current branch given to format_stack_comment
    comment,    \* the text of the stack comment
    centries,   \* the entries parsed from the lines of the comment
    spc,        \* stack reader: "off" | "listing" | "parsed"
    listing,    \* what the stack listing was drawn from: names, annotations
    output,     \* the text `gt ls --stack --reverse` printed
    presult,    \* the outcome of parse_stack
    pc,             \* submit_command: the step it is at
    mode,           \* "single" | "upstack" | "downstack" | "whole-stack" | "unset"
    dry_run,
    current_branch,
    full_stack,
    current_index,
    branches_to_submit,
    pr_info,        \* the PR directory submit_command fetched up front
    pr_urls,
    missing_prs,    \* the branches validate_stack_readiness listed
    exit_status,    \* -1 while running, then the exit status of the process
    exit_reason,
    checked_out,    \* version control: the branch that is checked out
    remote_heads,   \* version control: the branches of the remote
    host_prs,       \* code host: the open pull requests, by head branch
    host_comments,  \* code host: the comment bodies of each pull request
    log,            \* the commands issued so far, in order
    \* parse_historical_branches_from_comment: its position, its arguments
    \* comment_body and pr_info, the value returned
    hpc, hbody, hinfo, hresult,
    \* add_stack_comments run on its own: its position, its arguments stack,
    \* submitted_branches and dry_run, what the last run derived, wrote and
    \* called, what the run before derived and wrote, the number of runs
    apc, astack, asubmitted, adry, arun, aprev, acount,
    \* run_command and the operation that calls it: the position, the
    \* commands the operation issues (what each child writes and its status),
    \* the command at hand, what its child has yet to write, the pipe, whether
    \* the child has exited, output_lines, the values returned so far, the
    \* number of times each command was started, the exit status
    rpc, rcmds, rnow, rtodo, rpipe, rexited, rlines, rreturned, rstarts, rexit,
    \* filter_graphite_warnings: its position, its argument, the value returned
    fpc, finput, fresult,
    \* sync_command: its position, its arguments dry_run and skip_restack,
    \* what `git status --porcelain` prints, the local branches of the
    \* repository, the heads of the merged pull requests as the host lists
    \* them, initial_branch, merged_branches, the operator's answers so far,
    \* the branch checked out, the commands issued, the exit status
    ypc, ydry, yskip, ystatus, ybranches, yclosed, yinitial, ymerged,
    yanswers, yhead, ylog, yexit,
    \* main: its position, sys.argv[1] and sys.argv[2:], the environment of
    \* the update check (whether the cache directory can be made, whether
    \* package.json can be read, whether the cache asks for a notification),
    \* _version_check_thread, the calls main made, the exception that left
    \* main, the number of joins
    mpc, mcommand, margv, menv, mthread, mcalls, mraised, mjoins,
    \* concurrent executions of check_for_updates_async: the position of each
    \* thread, the versions they all observe, cache_data of each thread, the
    \* contents of the cache file, the threads whose save has completed
    kpc, kversions, kdata, kfile, ksaved

lineVars == <<lpc, largs, line, parsed>>
commentVars == <<cpc, cstack, cpr_info, ccurrent, comment, centries>>
codecVars == <<lineVars, anomaly, commentVars>>
readerVars == <<spc, listing, output, presult>>
runVars == <<pc, mode, dry_run, current_branch, full_stack, current_index,
             branches_to_submit, pr_info, pr_urls, missing_prs, exit_status,
             exit_reason>>
hostVars == <<checked_out, remote_heads, host_prs, host_comments, log>>
submitVars == <<runVars, hostVars>>

historyVars == <<hpc, hbody, hinfo, hresult>>
commentRunVars == <<apc, astack, asubmitted, adry, arun, aprev, acount>>
commandVars == <<rpc, rcmds, rnow, rtodo, rpipe, rexited, rlines, rreturned,
                 rstarts, rexit>>
filterVars == <<fpc, finput, fresult>>
syncVars == <<ypc, ydry, yskip, ystatus, ybranches, yclosed, yinitial, ymerged,
              yanswers, yhead, ylog, yexit>>
mainVars == <<mpc, mcommand, margv, menv, mthread, mcalls, mraised, mjoins>>
cacheVars == <<kpc, kversions, kdata, kfile, ksaved>>
moreVars == <<commandVars, filterVars, syncVars, mainVars, cacheVars>>
extraVars == <<historyVars, commentRunVars, moreVars>>

vars == <<codecVars, readerVars, submitVars, extraVars>>

-----------------------------------------------------------------------------
(* Bounds of the model                                                     *)

MaxTitleToks == 2
MaxLineToks == 4
MaxStack == 3
MaxRuns == 2
MaxWrites == 2
MaxFilterLines == 3
MaxArgs == 2
MaxThreads == 2

-----------------------------------------------------------------------------
(* Text helpers: the Python string operations the source uses              *)

Min(S) == CHOOSE x \in S : \A y \in S : x <= y
Max(S) == CHOOSE x \in S : \A y \in S : y <= x

\* \s of the regular expression and the characters str.strip() removes
SPACES == {" ", "\n"}

IsSpace(c) == c \in SPACES

\* \d of the regular expression
DIGITS == {"0", "1", "2", "3", "4", "5", "6", "7", "8", "9"}

IsDigit(c) == c \in DIGITS

\* str.strip()
Strip(s) ==
    LET keep == {i \in 1..Len(s) : ~IsSpace(s[i])}
    IN  IF keep = {} THEN <<>> ELSE SubSeq(s, Min(keep), Max(keep))

\* p occurs in s at position i
HasAt(s, i, p) ==
    /\ i >= 1
    /\ i + Len(p) - 1 <= Len(s)
    /\ SubSeq(s, i, i + Len(p) - 1) = p

\* str.startswith
StartsWith(s, p) == HasAt(s, 1, p)

\* str.endswith
EndsWith(s, p) == HasAt(s, Len(s) - Len(p) + 1, p)

\* c * n : the character c repeated n times
Repeat(c, n) == [i \in 1..n |-> c]

RECURSIVE Flatten(_)
\* "".join(parts)
Flatten(parts) ==
    IF parts = <<>> THEN <<>> ELSE Head(parts) \o Flatten(Tail(parts))

RECURSIVE Join(_, _)
\* sep.join(parts)
Join(sep, parts) ==
    IF parts = <<>> THEN <<>>
    ELSE IF Len(parts) = 1 THEN Head(parts)
    ELSE Head(parts) \o sep \o Join(sep, Tail(parts))

RECURSIVE Split(_, _)
\* s.split(c) for a one-character separator c
Split(s, c) ==
    LET at == {i \in 1..Len(s) : s[i] = c}
    IN  IF at = {} THEN <<s>>
        ELSE <<SubSeq(s, 1, Min(at) - 1)>>
                 \o Split(SubSeq(s, Min(at) + 1, Len(s)), c)

\* all sequences of at most n elements of T
SeqsUpTo(T, n) == UNION {[1..k -> T] : k \in 0..n}

-----------------------------------------------------------------------------
(* Stack comment formatting constants                                      *)

STACK_COMMENT_PREFIX == <<"#", "#", "#", " ", "S", "t", "a", "c", "k", "\n">>
STACK_TREE_BRANCH == "+"
STACK_TREE_LAST == "^"
STACK_TREE_LINE == "-"
CURRENT_BRANCH_PREFIX == <<"*", "*">>
CURRENT_BRANCH_SUFFIX == <<" ", "<", "~", "*", "*">>
PR_NUMBER_PREFIX == <<"(", "#">>
PR_NUMBER_SUFFIX == <<")">>

\* the value None of the source
None == <<>>

-----------------------------------------------------------------------------
(* _format_stack_line                                                      *)

\* a variant of _format_stack_line that never writes the current-branch
\* marker
FormatStackLineUnmarked(branch_index, total_branches, pr_title, pr_number, is_current) ==
    <<IF branch_index = total_branches - 1 THEN STACK_TREE_LAST
      ELSE STACK_TREE_BRANCH>>
        \o Repeat(STACK_TREE_LINE, branch_index) \o <<" ">> \o pr_title
        \o <<" ">> \o PR_NUMBER_PREFIX \o pr_number \o PR_NUMBER_SUFFIX

\* a variant of _format_stack_line that draws every entry with the branch
\* connector
FormatStackLineAllBranch(branch_index, total_branches, pr_title, pr_number, is_current) ==
    <<STACK_TREE_BRANCH>> \o Repeat(STACK_TREE_LINE, branch_index) \o <<" ">>
        \o (IF is_current THEN CURRENT_BRANCH_PREFIX ELSE <<>>)
        \o pr_title \o <<" ">> \o PR_NUMBER_PREFIX \o pr_number
        \o PR_NUMBER_SUFFIX
        \o (IF is_current THEN CURRENT_BRANCH_SUFFIX ELSE <<>>)

_format_stack_line(branch_index, total_branches, pr_title, pr_number, is_current) ==
    LET is_last == branch_index = total_branches - 1
        tree_char == IF is_last THEN STACK_TREE_LAST ELSE STACK_TREE_BRANCH
        indent == Repeat(STACK_TREE_LINE, branch_index)
        plain == pr_title \o <<" ">> \o PR_NUMBER_PREFIX \o pr_number
                     \o PR_NUMBER_SUFFIX
        pr_text == IF is_current
                   THEN CURRENT_BRANCH_PREFIX \o plain \o CURRENT_BRANCH_SUFFIX
                   ELSE plain
    IN  <<tree_char>> \o indent \o <<" ">> \o pr_text

-----------------------------------------------------------------------------
(* _parse_stack_line: the regular expression                               *)
(*   ^[tree]line*\s+(?:prefix)?(?P<title>.*?)\s+open(?P<pr_number>\d+)close *)
(* matched with re.match and re.DOTALL.  A match is described by the       *)
(* lengths its parts take: a (tree lines), b (first \s+), c (1 iff the     *)
(* optional prefix is taken), t (title), d (second \s+), k (digits).       *)

\* the number of characters from position i on that are of the class
RunLen(s, i, class) ==
    Max({j \in (i - 1)..Len(s) : \A m \in i..j : s[m] \in class}) - i + 1

TREE_LINES == {STACK_TREE_LINE}

\* a variant of TitleStart for a pattern without the optional prefix
TitleStartKeepsPrefix(a, b, c) == 2 + a + b

\* where the title group starts
TitleStart(a, b, c) == 2 + a + b + c * Len(CURRENT_BRANCH_PREFIX)

\* a variant of RefAt for a pattern with \d* in place of \d+
RefAtEmptyDigits(s, p) ==
    { dk \in (1..RunLen(s, p, SPACES)) \X (0..Len(s)) :
        /\ HasAt(s, p + dk[1], PR_NUMBER_PREFIX)
        /\ dk[2] <= RunLen(s, p + dk[1] + Len(PR_NUMBER_PREFIX), DIGITS)
        /\ HasAt(s, p + dk[1] + Len(PR_NUMBER_PREFIX) + dk[2], PR_NUMBER_SUFFIX) }

\* the ways  \s+open\d+close  matches at position p: <<d, k>>
RefAt(s, p) ==
    { dk \in (1..RunLen(s, p, SPACES)) \X (1..Len(s)) :
        /\ HasAt(s, p + dk[1], PR_NUMBER_PREFIX)
        /\ dk[2] <= RunLen(s, p + dk[1] + Len(PR_NUMBER_PREFIX), DIGITS)
        /\ HasAt(s, p + dk[1] + Len(PR_NUMBER_PREFIX) + dk[2], PR_NUMBER_SUFFIX) }

\* every way the whole pattern matches s from its start
PatternMatches(s) ==
    IF s = <<>> \/ s[1] \notin {STACK_TREE_BRANCH, STACK_TREE_LAST} THEN {}
    ELSE
    UNION { UNION { UNION { UNION {
        { [a |-> a, b |-> b, c |-> c, t |-> t, d |-> dk[1], k |-> dk[2]] :
            dk \in RefAt(s, TitleStart(a, b, c) + t) }
        : t \in 0..(Len(s) + 1 - TitleStart(a, b, c)) }
        : c \in {0} \cup (IF HasAt(s, 2 + a + b, CURRENT_BRANCH_PREFIX)
                          THEN {1} ELSE {}) }
        : b \in 1..RunLen(s, 2 + a, SPACES) }
        : a \in 0..RunLen(s, 2, TREE_LINES) }

\* The order in which the backtracking matcher tries the alternatives: the
\* greedy parts (a, b, c, d, k) longest first, the lazy title shortest first.
Tried(m) == <<0 - m.a, 0 - m.b, 0 - m.c, m.t, 0 - m.d, 0 - m.k>>

LexLeq(x, y) ==
    \/ x = y
    \/ \E i \in 1..Len(x) :
        /\ x[i] < y[i]
        /\ \A j \in 1..(i - 1) : x[j] = y[j]

\* the match re.match returns: the first one in trial order
FirstMatch(M) == CHOOSE m \in M : \A o \in M : LexLeq(Tried(m), Tried(o))

\* the groups pr_number and title of the match m of s
Groups(s, m) ==
    << SubSeq(s, TitleStart(m.a, m.b, m.c) + m.t + m.d + Len(PR_NUMBER_PREFIX),
              TitleStart(m.a, m.b, m.c) + m.t + m.d + Len(PR_NUMBER_PREFIX)
                  + m.k - 1),
       Strip(SubSeq(s, TitleStart(m.a, m.b, m.c),
                    TitleStart(m.a, m.b, m.c) + m.t - 1)) >>

MatchResult(s, M) == IF M = {} THEN None ELSE Groups(s, FirstMatch(M))

ParseStripped(s) ==
    IF s = <<>> \/ s[1] \notin {STACK_TREE_BRANCH, STACK_TREE_LAST}
    THEN None
    ELSE MatchResult(s, PatternMatches(s))

_parse_stack_line(text) == ParseStripped(Strip(text))

-----------------------------------------------------------------------------------------------------------------------------------------------------
(* The PR directory                                                        *)

MAIN == <<"m", "a", "i", "n">>

\* f"https://github.com/{owner}/{repo}/pull/{pr_number}"
PrUrl(owner, repo, pr_number) ==
    <<"h", "t", "t", "p", "s", ":", "/", "/", "g", "i", "t", "h", "u", "b",
      ".", "c", "o", "m", "/">> \o owner \o <<"/">> \o repo
        \o <<"/", "p", "u", "l", "l", "/">> \o pr_number

OWNER == <<"o", "w">>
REPO == <<"r", "e">>

\* PRInfo with no branches
NoPrInfo == [owner |-> OWNER, repo |-> REPO, branches |-> <<>>]

\* BranchInfo
BranchInfo(url, base, title) == [url |-> url, base |-> base, title |-> title]

-----------------------------------------------------------------------------
(* format_stack_comment                                                    *)

PR_PENDING == <<"P", "R", " ", "p", "e", "n", "d", "i", "n", "g">>
N_A == <<"N", "/", "A">>

Last(s) == s[Len(s)]

\* the line format_stack_comment appends for the branch at position i (from 1)
StackEntryLine(stack, info, current, i) ==
    LET branch == stack[i]
        known == branch \in DOMAIN info.branches
        pr_title == IF known THEN info.branches[branch].title ELSE PR_PENDING
        pr_number == IF known
                     THEN Last(Split(info.branches[branch].url, "/"))
                     ELSE N_A
    IN  _format_stack_line(i - 1, Len(stack), pr_title, pr_number,
                           branch = current)

format_stack_comment(stack, info, current) ==
    Join(<<"\n">>,
         <<STACK_COMMENT_PREFIX, MAIN>>
             \o [i \in 1..Len(stack) |->
                     StackEntryLine(stack, info, current, i)])

-----------------------------------------------------------------------------
(* Reading the entries of a comment: the loop that                          *)
(* parse_historical_branches_from_comment runs over the lines              *)

RECURSIVE ParsedLines(_)
\* the results of _parse_stack_line that are not None, in order
ParsedLines(ls) ==
    IF ls = <<>> THEN <<>>
    ELSE LET r == _parse_stack_line(Head(ls))
         IN  (IF r = None THEN <<>> ELSE <<r>>) \o ParsedLines(Tail(ls))

\* lines[2:] of comment_body.split("\n"), parsed
CommentEntries(comment_body) ==
    LET lines == Split(comment_body, "\n")
    IN  ParsedLines(SubSeq(lines, 3, Len(lines)))

-----
(* Inputs of the line codec                                                *)

\* Pieces that titles are built from: ordinary characters, white space,
\* the bold marker, parentheses, a hash, and a whole PR-number reference.
TitleTokens ==
    { <<"a">>, <<"&">>, <<" ">>, <<"\n">>, <<"*", "*">>, <<"(">>, <<")">>,
      <<"#">>, <<" ", "(", "#", "1", ")">> }

Titles == {Flatten(ts) : ts \in SeqsUpTo(TitleTokens, MaxTitleToks)}

\* PR numbers as the digit strings that end a pull request URL
PrNumbers == { <<"7">>, <<"1", "2">> }

\* Pieces that raw comment lines are built from
LineTokens ==
    { <<"+", " ">>, <<"^", "-">>, <<" ">>, <<"a">>, <<"*", "*">>,
      <<" ", "(", "#">>, <<"1">>, <<")">>, <<" ", "(", "#", "2", ")">> }

RawLines == {Flatten(ts) : ts \in SeqsUpTo(LineTokens, MaxLineToks)}

NoArgs == [branch_index |-> 0, total_branches |-> 0, pr_title |-> <<>>,
           pr_number |-> <<>>, is_current |-> FALSE]

FormatArgs ==
    { [branch_index |-> i, total_branches |-> n, pr_title |-> t,
       pr_number |-> p, is_current |-> c] :
        i \in 0..(MaxStack - 1), n \in 1..MaxStack, t \in Titles,
        p \in PrNumbers, c \in BOOLEAN }

-----------------------------------------------------------------------------
(* The line codec as a state machine: format a line, parse it back         *)

NoListing == [names |-> <<>>, anns |-> <<>>, cur |-> 0, branching |-> "none"]

ReaderOff ==
    /\ spc = "off"
    /\ listing = NoListing
    /\ output = <<>>
    /\ presult = [how |-> "none", stack |-> <<>>]

SubmitOff ==
    /\ pc = "off"
    /\ mode = "unset"
    /\ dry_run = FALSE
    /\ current_branch = <<>>
    /\ full_stack = <<>>
    /\ current_index = 0
    /\ branches_to_submit = <<>>
    /\ pr_info = NoPrInfo
    /\ pr_urls = <<>>
    /\ missing_prs = <<>>
    /\ exit_status = -1
    /\ exit_reason = "none"
    /\ checked_out = <<>>
    /\ remote_heads = {}
    /\ host_prs = <<>>
    /\ host_comments = <<>>
    /\ log = <<>>

CommentOff ==
    /\ cpc = "off"
    /\ cstack = <<>>
    /\ cpr_info = NoPrInfo
    /\ ccurrent = <<>>
    /\ comment = <<>>
    /\ centries = <<>>

HistoryOff ==
    /\ hpc = "off"
    /\ hbody = <<>>
    /\ hinfo = NoPrInfo
    /\ hresult = [branches |-> <<>>, info |-> <<>>]

NoRun == [historical |-> <<>>, written |-> <<>>, calls |-> <<>>]

NoRunBefore == [historical |-> <<>>, written |-> <<>>]

CommentRunOff ==
    /\ apc = "off"
    /\ astack = <<>>
    /\ asubmitted = <<>>
    /\ adry = FALSE
    /\ arun = NoRun
    /\ aprev = NoRunBefore
    /\ acount = 0

CommandOff ==
    /\ rpc = "off"
    /\ rcmds = <<>>
    /\ rnow = 0
    /\ rtodo = <<>>
    /\ rpipe = <<>>
    /\ rexited = FALSE
    /\ rlines = <<>>
    /\ rreturned = <<>>
    /\ rstarts = <<>>
    /\ rexit = -1

FilterOff ==
    /\ fpc = "off"
    /\ finput = <<>>
    /\ fresult = <<>>

SyncOff ==
    /\ ypc = "off"
    /\ ydry = FALSE
    /\ yskip = FALSE
    /\ ystatus = <<>>
    /\ ybranches = {}
    /\ yclosed = <<>>
    /\ yinitial = <<>>
    /\ ymerged = {}
    /\ yanswers = <<>>
    /\ yhead = <<>>
    /\ ylog = <<>>
    /\ yexit = -1

NoEnv == [dir_ok |-> TRUE, package_ok |-> TRUE, notify |-> FALSE]

MainOff ==
    /\ mpc = "off"
    /\ mcommand = ""
    /\ margv = <<>>
    /\ menv = NoEnv
    /\ mthread = "none"
    /\ mcalls = <<>>
    /\ mraised = "none"
    /\ mjoins = 0

Threads == 1..MaxThreads

CacheOff ==
    /\ kpc = [t \in Threads |-> "off"]
    /\ kversions = [current |-> <<0, 0, 0>>, latest |-> <<0, 0, 0>>]
    /\ kdata = [t \in Threads |-> <<>>]
    /\ kfile = <<>>
    /\ ksaved = {}

MoreOff == CommandOff /\ FilterOff /\ SyncOff /\ MainOff /\ CacheOff

ExtraOff == HistoryOff /\ CommentRunOff /\ MoreOff

LineOff ==
    /\ lpc = "off"
    /\ largs = NoArgs
    /\ line = <<>>
    /\ parsed = None

InitLine ==
    /\ ExtraOff
    /\ CommentOff
    /\ ReaderOff
    /\ SubmitOff
    /\ lpc = "args"
    /\ largs \in {x \in FormatArgs : x.branch_index < x.total_branches}
    /\ line = <<>>
    /\ anomaly = FALSE
    /\ parsed = None

FormatLine ==
    /\ lpc = "args"
    /\ line' = _format_stack_line(largs.branch_index, largs.total_branches,
                                   largs.pr_title, largs.pr_number,
                                   largs.is_current)
    /\ lpc' = "line"
    /\ UNCHANGED extraVars
    /\ UNCHANGED <<largs, anomaly, parsed, commentVars, readerVars, submitVars>>

\* A hand edit of a stored comment: the arrow of the current marker is
\* removed, leaving a bold prefix closed by a plain bold suffix.
DropArrow ==
    /\ lpc = "line"
    /\ ~anomaly
    /\ EndsWith(line, CURRENT_BRANCH_SUFFIX)
    /\ line' = SubSeq(line, 1, Len(line) - Len(CURRENT_BRANCH_SUFFIX))
                   \o CURRENT_BRANCH_PREFIX
    /\ anomaly' = TRUE
    /\ UNCHANGED extraVars
    /\ UNCHANGED <<lpc, largs, parsed, commentVars, readerVars, submitVars>>

ParseLine ==
    /\ lpc = "line"
    /\ parsed' = _parse_stack_line(line)
    /\ lpc' = "parsed"
    /\ UNCHANGED extraVars
    /\ UNCHANGED <<largs, line, anomaly, commentVars, readerVars, submitVars>>

NextLine == FormatLine \/ DropArrow \/ ParseLine

\* Raw lines given to _parse_stack_line
InitRaw ==
    /\ ExtraOff
    /\ CommentOff
    /\ ReaderOff
    /\ SubmitOff
    /\ lpc = "line"
    /\ largs = NoArgs
    /\ line \in RawLines
    /\ anomaly = FALSE
    /\ parsed = None


-----------------------------------------------------------------------------
(* Inputs of the comment codec                                             *)

BranchNames == << <<"f", "a">>, <<"f", "b">>, <<"f", "c">>, <<"f", "d">>,
                  <<"f", "e">> >>

\* the number of the pull request of each branch
BranchPrNumber == << <<"7">>, <<"1", "2">>, <<"3">>, <<"4", "0">>, <<"5">> >>

BranchIndex(b) == CHOOSE i \in 1..Len(BranchNames) : BranchNames[i] = b

\* stacks: the first n branch names
StackOfLen(n) == SubSeq(BranchNames, 1, n)

\* titles of the pull requests in a directory
CommentTitles ==
    { <<"a">>, <<"a", " ", "&">>, <<>>, <<"a", "\n", "b">>, <<"*", "*", "a">>,
      <<"(", "a", ")", " ", "#">>, <<"a", " ", "(", "#", "9", ")">> }

\* directories over the branches of a stack: each branch has an open pull
\* request with some title, or none
Directories(stack) ==
    LET names == {stack[i] : i \in 1..Len(stack)}
    IN  UNION { { [owner |-> OWNER, repo |-> REPO,
                   branches |-> [b \in D |->
                       BranchInfo(PrUrl(OWNER, REPO,
                                        BranchPrNumber[BranchIndex(b)]),
                                  MAIN, tf[b])]] :
                  tf \in [D -> CommentTitles] }
              : D \in SUBSET names }

-----------------------------------------------------------------------------
(* The comment codec as a state machine: format a comment, read it back    *)

InitComment ==
    /\ ExtraOff
    /\ LineOff
    /\ ReaderOff
    /\ SubmitOff
    /\ anomaly = FALSE
    /\ cpc = "input"
    /\ \E n \in 1..MaxStack :
        /\ n <= Len(BranchNames)
        /\ cstack = StackOfLen(n)
        /\ cpr_info \in Directories(cstack)
        /\ \E i \in 1..n : ccurrent = cstack[i]
    /\ comment = <<>>
    /\ centries = <<>>

FormatComment ==
    /\ cpc = "input"
    /\ comment' = format_stack_comment(cstack, cpr_info, ccurrent)
    /\ cpc' = "comment"
    /\ UNCHANGED extraVars
    /\ UNCHANGED <<cstack, cpr_info, ccurrent, centries, anomaly, lineVars,
                   readerVars, submitVars>>

\* ReplaceFirst: the first occurrence of p in s replaced by q
ReplaceFirst(s, p, q) ==
    LET at == {i \in 1..Len(s) : HasAt(s, i, p)}
    IN  IF at = {} THEN s
        ELSE SubSeq(s, 1, Min(at) - 1) \o q
                 \o SubSeq(s, Min(at) + Len(p), Len(s))

\* A hand edit of the stored comment: the arrow of the current marker is
\* removed, leaving a bold prefix closed by a plain bold suffix.
DropCommentArrow ==
    /\ cpc = "comment"
    /\ ~anomaly
    /\ \E i \in 1..Len(comment) : HasAt(comment, i, CURRENT_BRANCH_SUFFIX)
    /\ comment' = ReplaceFirst(comment, CURRENT_BRANCH_SUFFIX,
                               CURRENT_BRANCH_PREFIX)
    /\ anomaly' = TRUE
    /\ UNCHANGED extraVars
    /\ UNCHANGED <<cpc, cstack, cpr_info, ccurrent, centries, lineVars,
                   readerVars, submitVars>>

ReadComment ==
    /\ cpc = "comment"
    /\ centries' = CommentEntries(comment)
    /\ cpc' = "parsed"
    /\ UNCHANGED extraVars
    /\ UNCHANGED <<cstack, cpr_info, ccurrent, comment, anomaly, lineVars,
                   readerVars, submitVars>>

NextComment == FormatComment \/ DropCommentArrow \/ ReadComment

-----------------------------------------------------------------------------
(* The codec specifications: lines and comments formatted and read back;   *)
(* raw lines parsed                                                        *)

InitCodec == InitLine \/ InitComment

NextCodec == NextLine \/ NextComment

SpecCodec == InitCodec /\ [][NextCodec]_vars

\* raw lines parsed
NextRaw == ParseLine

SpecRaw == InitRaw /\ [][NextRaw]_vars

-----------------------------------------------------------------------------------------------------------------------------------------------------
(* parse_stack                                                             *)

NODE == "o"
CURRENT_NODE == "@"
VERTICAL == "|"
CORNER == <<"-", "}">>

\* p in s
Contains(s, p) == \E i \in 1..Len(s) : HasAt(s, i, p)

RECURSIVE SplitWords(_)
\* s.split(): the words of s between runs of white space
SplitWords(s) ==
    LET t == Strip(s)
        ws == {i \in 1..Len(t) : IsSpace(t[i])}
    IN  IF t = <<>> THEN <<>>
        ELSE IF ws = {} THEN <<t>>
        ELSE <<SubSeq(t, 1, Min(ws) - 1)>>
                 \o SplitWords(SubSeq(t, Min(ws) + 1, Len(t)))

\* the branch parse_stack appends for a line, if any
LineBranches(l) ==
    IF Contains(l, <<NODE>>) \/ Contains(l, <<CURRENT_NODE>>)
    THEN <<Last(SplitWords(l))>>
    ELSE <<>>

\* "Detect branching"
\* a variant of IsBranching that looks for the vertical glyph only
IsBranchingVerticalOnly(l) == Contains(l, <<VERTICAL>>)

IsBranching(l) == Contains(l, <<VERTICAL>>) \/ Contains(l, CORNER)

RECURSIVE StackOfLines(_)
\* the list `stack` after the loop has run over the lines ls
StackOfLines(ls) ==
    IF ls = <<>> THEN <<>>
    ELSE LineBranches(Head(ls)) \o StackOfLines(Tail(ls))

\* The outcome of parse_stack on the (filtered, stripped) text out:
\* "exit" (sys.exit(1) on branching), "raise" (an assertion or the index
\* stack[0] fails) or "return" with the list returned.
parse_stack(out) ==
    LET lines == IF out = <<>> THEN <<>> ELSE Split(out, "\n")
        stack == StackOfLines(lines)
    IN  IF \E i \in 1..Len(lines) : IsBranching(lines[i])
        THEN [how |-> "exit", stack |-> <<>>]
        ELSE IF stack = <<>> \/ stack[1] # MAIN \/ ~(Len(stack) > 1)
        THEN [how |-> "raise", stack |-> <<>>]
        ELSE [how |-> "return", stack |-> Tail(stack)]

-----------------------------------------------------------------------------
(* Stack listings as `gt ls --stack --reverse` prints them                 *)

NEEDS_RESTACK == <<"(", "n", "e", "e", "d", "s", " ", "r", "e", "s", "t", "a",
                   "c", "k", ")">>

\* how a branch line is annotated
Annotations == {"none", "same", "wrapped"}

\* where a listing shows branching
Branchings == {"none", "vertical", "corner"}

\* the lines of the listing for the branch at position i of n
BranchLines(name, ann, node) ==
    IF ann = "same"
    THEN << <<node, " ">> \o name \o <<" ">> \o NEEDS_RESTACK >>
    ELSE IF ann = "wrapped"
    THEN << <<node, " ">> \o name, <<" ", " ">> \o NEEDS_RESTACK >>
    ELSE << <<node, " ">> \o name >>

RECURSIVE ListingLines(_, _, _, _)
ListingLines(names, anns, cur, i) ==
    IF i > Len(names) THEN <<>>
    ELSE BranchLines(names[i], anns[i],
                     IF i = cur THEN CURRENT_NODE ELSE NODE)
             \o ListingLines(names, anns, cur, i + 1)

\* the text of a listing: the trunk line, then the branch lines bottom to
\* top; cur is the position of the checked-out branch (0 for trunk); a
\* branching listing draws its last branch as a sibling
ListingText(l) ==
    LET trunk == <<IF l.cur = 0 THEN CURRENT_NODE ELSE NODE, " ">> \o MAIN
        body == ListingLines(l.names, l.anns, l.cur, 1)
        lines == <<trunk>> \o body
        drawn == IF l.branching = "vertical"
                 THEN SubSeq(lines, 1, Len(lines) - 1)
                          \o << <<VERTICAL, " ">> \o Last(lines) >>
                 ELSE IF l.branching = "corner"
                 THEN SubSeq(lines, 1, Len(lines) - 1)
                          \o << <<NODE>> \o CORNER \o <<" ">>
                                    \o SubSeq(Last(lines), 3, Len(Last(lines))) >>
                 ELSE lines
    IN  Join(<<"\n">>, drawn)

Listings ==
    UNION { { [names |-> StackOfLen(n), anns |-> a, cur |-> c, branching |-> b] :
                a \in [1..n -> Annotations], c \in 0..n, b \in Branchings }
            : n \in 0..MaxStack }

-----------------------------------------------------------------------------
(* The stack reader as a state machine                                     *)

CodecOff == LineOff /\ anomaly = FALSE /\ CommentOff

InitReader ==
    /\ ExtraOff
    /\ CodecOff
    /\ SubmitOff
    /\ spc = "listing"
    /\ listing \in Listings
    /\ output = ListingText(listing)
    /\ presult = [how |-> "none", stack |-> <<>>]

ParseStack ==
    /\ spc = "listing"
    /\ presult' = parse_stack(output)
    /\ spc' = "parsed"
    /\ UNCHANGED extraVars
    /\ UNCHANGED <<listing, output, codecVars, submitVars>>

NextReader == ParseStack

SpecReader == InitReader /\ [][NextReader]_vars

-----------------------------------------------------------------------------------------------------------------------------------------------------
(* The code host as the commands read it                                   *)

\* get_pr_info(): the directory of the open pull requests prs
get_pr_info(prs) == [owner |-> OWNER, repo |-> REPO, branches |-> prs]

\* get_stack_comment_from_pr on the comments cs of a pull request: the first
\* comment that starts with the header; the id 0 stands for None
get_stack_comment_from_pr(cs) ==
    LET at == {i \in 1..Len(cs) : StartsWith(cs[i], STACK_COMMENT_PREFIX)}
    IN  IF at = {} THEN [id |-> 0, body |-> <<>>]
        ELSE [id |-> Min(at), body |-> cs[Min(at)]]

-----------------------------------------------------------------------------
(* parse_historical_branches_from_comment                                  *)

HISTORICAL == <<"h", "i", "s", "t", "o", "r", "i", "c", "a", "l", "_">>

NoHistory == [branches |-> <<>>, info |-> <<>>]

\* the second pass: the entries found before the first live line become
\* the historical branches and their records
HistoricalOf(found, info) ==
    [ branches |-> [i \in 1..Len(found) |-> HISTORICAL \o found[i][1]],
      info |-> [k \in {HISTORICAL \o found[i][1] : i \in 1..Len(found)} |->
                  LET last == Max({i \in 1..Len(found) :
                                     HISTORICAL \o found[i][1] = k})
                  IN  BranchInfo(PrUrl(info.owner, info.repo, found[last][1]),
                                 MAIN, found[last][2])] ]

\* a line that parses to an entry whose URL is in urls
IsLiveEntry(info, urls, r) ==
    r # None /\ PrUrl(info.owner, info.repo, r[1]) \in urls

\* the first pass: the lines of the entries whose URL is live
LiveLines(lines, info, urls) ==
    {j \in 3..Len(lines) : IsLiveEntry(info, urls, _parse_stack_line(lines[j]))}

\* a variant of HistoryBefore that takes every entry as historical when
\* no entry is live
HistoryBeforeOrAll(lines, info, live) ==
    HistoricalOf(ParsedLines(SubSeq(lines, 3,
                     IF live = {} THEN Len(lines) ELSE Min(live) - 1)), info)

HistoryBefore(lines, info, live) ==
    IF live = {} THEN NoHistory
    ELSE HistoricalOf(ParsedLines(SubSeq(lines, 3, Min(live) - 1)), info)

HistoryOfLines(lines, info, current_pr_urls) ==
    HistoryBefore(lines, info, LiveLines(lines, info, current_pr_urls))

parse_historical_branches_from_comment(comment_body, info) ==
    IF ~StartsWith(comment_body, STACK_COMMENT_PREFIX) THEN NoHistory
    ELSE HistoryOfLines(Split(comment_body, "\n"), info,
             {info.branches[b].url : b \in DOMAIN info.branches})

-----------------------------------------------------------------------------
(* add_stack_comments                                                      *)

Elems(q) == {q[i] : i \in 1..Len(q)}

\* {**historical, **updated}
MergeInfo(historical, updated) ==
    [k \in DOMAIN historical \cup DOMAIN updated |->
        IF k \in DOMAIN updated THEN updated[k] ELSE historical[k]]

\* the first branch of the stack with a pull request, <<>> if none
LowestBranchWithPr(stack, prs) ==
    LET at == {i \in 1..Len(stack) : stack[i] # MAIN /\ stack[i] \in DOMAIN prs}
    IN  IF at = {} THEN <<>> ELSE stack[Min(at)]

\* the stack and directory extended by the historical branches h
Extended(stack, prs, h) ==
    IF h.branches # <<>>
    THEN [ stack |-> h.branches \o stack,
           info |-> get_pr_info(MergeInfo(h.info, prs)) ]
    ELSE [stack |-> stack, info |-> get_pr_info(prs)]

\* extended_stack and extended_pr_info given the source of truth comment
ExtendedFrom(stack, prs, source_of_truth_comment) ==
    IF source_of_truth_comment # <<>>
    THEN Extended(stack, prs,
             parse_historical_branches_from_comment(source_of_truth_comment,
                                                    get_pr_info(prs)))
    ELSE [stack |-> stack, info |-> get_pr_info(prs)]

ExtendedBelow(stack, prs, comments, lowest_branch_with_pr) ==
    IF lowest_branch_with_pr = <<>>
    THEN [stack |-> stack, info |-> get_pr_info(prs)]
    ELSE ExtendedFrom(stack, prs,
             get_stack_comment_from_pr(comments[lowest_branch_with_pr]).body)

\* extended_stack and extended_pr_info, computed once per run
ExtendedView(stack, prs, comments) ==
    ExtendedBelow(stack, prs, comments, LowestBranchWithPr(stack, prs))

\* a variant of BranchesToUpdate without the downstack branches
BranchesToUpdateSubmittedOnly(stack, submitted_branches, prs) ==
    {b \in Elems(submitted_branches) : b # MAIN /\ b \in DOMAIN prs}

\* branches_to_update, as a set
BranchesToUpdate(stack, submitted_branches, prs) ==
    LET at == {i \in 1..Len(stack) : stack[i] \in Elems(submitted_branches)}
        lowest_submitted_index == IF at = {} THEN Len(stack) ELSE Min(at) - 1
        downstack_branches == IF lowest_submitted_index < Len(stack)
                              THEN SubSeq(stack, 1, lowest_submitted_index)
                              ELSE <<>>
    IN  { b \in Elems(submitted_branches) \cup Elems(downstack_branches) :
            b # MAIN /\ b \in DOMAIN prs }

\* a variant of CommentOfView that marks no entry as current
CommentOfViewUnmarked(view, branch) ==
    format_stack_comment(view.stack, view.info, <<>>)

\* the body written to the pull request of branch
CommentOfView(view, branch) ==
    format_stack_comment(view.stack, view.info, branch)

StackCommentFor(stack, prs, comments, branch) ==
    CommentOfView(ExtendedView(stack, prs, comments), branch)

\* a variant of WriteAt that always adds a new comment
WriteAtAlwaysNew(cs, comment_id, body) == Append(cs, body)

\* the comments of a pull request after the stack comment body was written:
\* the comment found is edited by its id, or a new comment is added
WriteAt(cs, comment_id, body) ==
    IF comment_id # 0 THEN [cs EXCEPT ![comment_id] = body]
    ELSE Append(cs, body)

WriteComment(cs, body) == WriteAt(cs, get_stack_comment_from_pr(cs).id, body)

\* the orders in which a list made from a set may be walked
Orders(S) ==
    {q \in [1..Cardinality(S) -> S] : \A i, j \in DOMAIN q : q[i] = q[j] => i = j}

-----------------------------------------------------------------------------
(* The log of commands                                                     *)

\* a command issued for a branch; ran is FALSE when a dry run only printed
\* it, ok is FALSE when it ended with a non-zero status
Cmd(op, branch, base, ran, ok) ==
    [op |-> op, branch |-> branch, base |-> base, ran |-> ran, ok |-> ok]

Read(op, branch) == Cmd(op, branch, <<>>, TRUE, TRUE)

\* the commands that change the code host or the version-control state
MutatingOps == {"checkout", "push", "force_push", "pr_edit", "pr_create",
                "comment_create", "comment_update"}

-----------------------------------------------------------------------------
(* One run of add_stack_comments                                           *)

\* the reads before the update set is computed: the directory refresh, then
\* the comments of the lowest branch with a pull request
RefreshReads(lowest_branch_with_pr) ==
    <<Read("pr_list", <<>>), Read("repo_view", <<>>)>>
        \o (IF lowest_branch_with_pr = <<>> THEN <<>>
            ELSE <<Read("comments_view", lowest_branch_with_pr)>>)

\* the command that writes the stack comment of branch b
WriteCmd(comments, b, dry) ==
    Cmd(IF get_stack_comment_from_pr(comments[b]).id # 0
        THEN "comment_update" ELSE "comment_create",
        b, <<>>, ~dry, TRUE)

\* the commands of a run that walks branches_to_update in the given order
RunCalls(stack, dry, prs, comments, order) ==
    RefreshReads(LowestBranchWithPr(stack, prs))
        \o Flatten([i \in 1..Len(order) |->
                      <<Read("comments_view", order[i]),
                        WriteCmd(comments, order[i], dry)>>])

\* stack_comment for every branch of the update set
Written(view, update) == [b \in update |-> CommentOfView(view, b)]

\* the comments of the pull requests after a run
CommentsAfter(dry, comments, written) ==
    IF dry THEN comments
    ELSE [b \in DOMAIN comments |->
            IF b \in DOMAIN written
            THEN WriteComment(comments[b], written[b])
            ELSE comments[b]]

\* what a run derived, passed to its write commands, and called
RunRecord(stack, view, written, calls) ==
    [ historical |-> SubSeq(view.stack, 1, Len(view.stack) - Len(stack)),
      written |-> written,
      calls |-> calls ]

-----------------------------------------------------------------------------
(* submit_command                                                          *)

Modes == {"single", "upstack", "downstack", "whole-stack", "unset"}

BranchTitles == << <<"a">>, <<"b", " ", "(", "x", ")">>, <<"c", " ", "&">>,
                   <<"d">>, <<"e">> >>

BranchUrl(b) == PrUrl(OWNER, REPO, BranchPrNumber[BranchIndex(b)])

\* the branches that exist locally
LocalBranches == Elems(listing.names) \cup {MAIN}

Exit(reason) ==
    /\ pc' = "exit"
    /\ exit_status' = 1
    /\ exit_reason' = reason

\* Step 1: validate the current branch
SubmitValidateBranch ==
    /\ pc = "start"
    /\ current_branch' = checked_out
    /\ log' = log \o <<Read("branch_show_current", <<>>), Read("trunk", <<>>)>>
    /\ IF checked_out = MAIN
       THEN Exit("trunk")
       ELSE pc' = "parse" /\ UNCHANGED <<exit_status, exit_reason>>
    /\ UNCHANGED extraVars
    /\ UNCHANGED <<mode, dry_run, full_stack, current_index, branches_to_submit,
                   pr_info, pr_urls, missing_prs, checked_out, remote_heads,
                   host_prs, host_comments, codecVars, readerVars>>

\* Step 2: parse the stack
SubmitParseStack ==
    /\ pc = "parse"
    /\ presult' = parse_stack(output)
    /\ log' = Append(log, Read("ls_stack", <<>>))
    /\ full_stack' = presult'.stack
    /\ IF presult'.how = "exit" THEN Exit("branching")
       ELSE IF presult'.how = "raise" THEN Exit("assertion")
       ELSE IF current_branch \notin Elems(presult'.stack)
       THEN Exit("not_in_stack")
       ELSE pc' = "mode" /\ UNCHANGED <<exit_status, exit_reason>>
    /\ UNCHANGED extraVars
    /\ UNCHANGED <<mode, dry_run, current_branch, current_index,
                   branches_to_submit, pr_info, pr_urls, missing_prs,
                   checked_out, remote_heads, host_prs, host_comments,
                   codecVars, spc, listing, output>>

\* Step 3: the mode, asked of the user when it is unset
SubmitSelectMode ==
    /\ pc = "mode"
    /\ IF mode # "unset" THEN mode' = mode
       ELSE IF Len(full_stack) = 1 THEN mode' = "single"
       ELSE \E user_input \in {"s", "u", "d", "w"} :
              mode' = CASE user_input = "s" -> "single"
                        [] user_input = "u" -> "upstack"
                        [] user_input = "d" -> "downstack"
                        [] user_input = "w" -> "whole-stack"
    /\ pc' = "plan"
    /\ UNCHANGED extraVars
    /\ UNCHANGED <<dry_run, current_branch, full_stack, current_index,
                   branches_to_submit, pr_info, pr_urls, missing_prs,
                   exit_status, exit_reason, hostVars, codecVars, readerVars>>

\* enumerate(q): the pairs (i, q[i]) counted from 0
Enumerate(q) == [i \in 1..Len(q) |-> <<i - 1, q[i]>>]

\* list.index(x), counted from 0
IndexOf(q, x) == Min({i \in 1..Len(q) : q[i] = x}) - 1

\* a variant of PlanFor whose downstack plan stops below the current branch
PlanForBelowOnly(m, stack, index) ==
    IF m = "single" THEN << <<index, stack[index + 1]>> >>
    ELSE IF m = "upstack" THEN Enumerate(SubSeq(stack, index + 1, Len(stack)))
    ELSE IF m = "downstack" THEN Enumerate(SubSeq(stack, 1, index))
    ELSE IF m = "whole-stack" THEN Enumerate(stack)
    ELSE <<>>

\* the pairs (position, branch) planned for a mode
PlanFor(m, stack, index) ==
    IF m = "single" THEN << <<index, stack[index + 1]>> >>
    ELSE IF m = "upstack" THEN Enumerate(SubSeq(stack, index + 1, Len(stack)))
    ELSE IF m = "downstack" THEN Enumerate(SubSeq(stack, 1, index + 1))
    ELSE IF m = "whole-stack" THEN Enumerate(stack)
    ELSE <<>>

SubmitPlan ==
    /\ pc = "plan"
    /\ current_index' = IndexOf(full_stack, current_branch)
    /\ branches_to_submit' = PlanFor(mode, full_stack, current_index')
    /\ pc' = "info"
    /\ UNCHANGED extraVars
    /\ UNCHANGED <<mode, dry_run, current_branch, full_stack, pr_info, pr_urls,
                   missing_prs, exit_status, exit_reason, hostVars, codecVars,
                   readerVars>>

\* a variant of MissingPrs that also looks at the current branch
MissingPrsInclusive(stack, index, info) ==
    SelectSeq(SubSeq(stack, 1, index + 1),
              LAMBDA b : b # MAIN /\ b \notin DOMAIN info.branches)

\* the branches validate_stack_readiness finds without a pull request
MissingPrs(stack, index, info) ==
    SelectSeq(SubSeq(stack, 1, index),
              LAMBDA b : b # MAIN /\ b \notin DOMAIN info.branches)

\* the directory is fetched; single and upstack validate the stack
SubmitGetInfo ==
    /\ pc = "info"
    /\ pr_info' = get_pr_info(host_prs)
    /\ log' = log \o <<Read("pr_list", <<>>), Read("repo_view", <<>>)>>
    /\ IF mode \in {"upstack", "single"}
       THEN /\ missing_prs' = MissingPrs(full_stack, current_index, pr_info')
            /\ IF missing_prs' # <<>>
               THEN Exit("not_ready")
               ELSE pc' = "submit" /\ UNCHANGED <<exit_status, exit_reason>>
       ELSE /\ pc' = "submit"
            /\ UNCHANGED <<missing_prs, exit_status, exit_reason>>
    /\ UNCHANGED extraVars
    /\ UNCHANGED <<mode, dry_run, current_branch, full_stack, current_index,
                   branches_to_submit, pr_urls, checked_out, remote_heads,
                   host_prs, host_comments, codecVars, readerVars>>

\* One round of the loop "Submit the branches": the branch is checked out
\* and submit_branch pushes it and creates or retargets its pull request.
SubmitBranch ==
    /\ pc = "submit"
    /\ Len(pr_urls) < Len(branches_to_submit)
    /\ LET stack_index == branches_to_submit[Len(pr_urls) + 1][1]
           branch == branches_to_submit[Len(pr_urls) + 1][2]
           parent_branch == IF stack_index > 0 THEN full_stack[stack_index]
                            ELSE MAIN
           checkout == Cmd("checkout", branch, <<>>, TRUE,
                           branch \in LocalBranches)
           push == Cmd(IF branch \in remote_heads THEN "force_push" ELSE "push",
                       branch, <<>>, ~dry_run, TRUE)
           edit == Cmd("pr_edit", branch, parent_branch, ~dry_run, TRUE)
           create == Cmd("pr_create", branch, parent_branch, ~dry_run, TRUE)
           view == Read("pr_view", branch)
           pushed == IF dry_run THEN remote_heads ELSE remote_heads \cup {branch}
       IN  IF branch = MAIN
           THEN /\ Exit("assertion")
                /\ UNCHANGED <<pr_urls, hostVars>>
           ELSE IF branch \notin LocalBranches
           THEN /\ Exit("command_failed")
                /\ log' = Append(log, checkout)
                /\ UNCHANGED <<pr_urls, checked_out, remote_heads, host_prs,
                               host_comments>>
           ELSE IF branch \in DOMAIN pr_info.branches
           THEN /\ checked_out' = branch
                /\ remote_heads' = pushed
                /\ IF pr_info.branches[branch].base # parent_branch
                   THEN /\ log' = log \o <<checkout, Read("ls_remote", <<>>),
                                           push, edit>>
                        /\ host_prs' =
                             IF dry_run THEN host_prs
                             ELSE [host_prs EXCEPT ![branch].base = parent_branch]
                   ELSE /\ log' = log \o <<checkout, Read("ls_remote", <<>>),
                                           push>>
                        /\ host_prs' = host_prs
                /\ pr_urls' = Append(pr_urls,
                       <<branch, pr_info.branches[branch].url, "updated">>)
                /\ UNCHANGED <<pc, exit_status, exit_reason, host_comments>>
           ELSE /\ checked_out' = branch
                /\ remote_heads' = pushed
                /\ IF dry_run
                   THEN \* no pull request was created: gh pr view ends with
                        \* a non-zero status, or prints nothing and the
                        \* branch is not in the directory it returns
                        /\ \E view_ok \in BOOLEAN :
                             /\ log' = log \o <<checkout,
                                     Read("ls_remote", <<>>), push, create,
                                     Cmd("pr_view", branch, <<>>, TRUE, view_ok)>>
                             /\ Exit(IF view_ok THEN "creation_failed"
                                     ELSE "command_failed")
                        /\ UNCHANGED <<pr_urls, host_prs, host_comments>>
                   ELSE /\ log' = log \o <<checkout, Read("ls_remote", <<>>),
                                           push, create, view,
                                           Read("repo_view", <<>>)>>
                        /\ host_prs' = host_prs @@
                              (branch :> BranchInfo(BranchUrl(branch),
                                   parent_branch,
                                   BranchTitles[BranchIndex(branch)]))
                        /\ host_comments' = host_comments @@ (branch :> <<>>)
                        /\ pr_urls' = Append(pr_urls,
                               <<branch, BranchUrl(branch), "created">>)
                        /\ UNCHANGED <<pc, exit_status, exit_reason>>
    /\ UNCHANGED extraVars
    /\ UNCHANGED <<mode, dry_run, current_branch, full_stack, current_index,
                   branches_to_submit, pr_info, missing_prs, codecVars,
                   readerVars>>

\* "Update stack references": add_stack_comments(full_stack, dry_run,
\* submitted_branch_names), run as a whole
SubmitAddStackComments ==
    /\ pc = "submit"
    /\ Len(pr_urls) = Len(branches_to_submit)
    /\ LET submitted_branch_names ==
               [i \in 1..Len(branches_to_submit) |-> branches_to_submit[i][2]]
       IN  /\ \E order \in Orders(BranchesToUpdate(full_stack,
                                   submitted_branch_names, host_prs)) :
                 log' = log \o RunCalls(full_stack, dry_run, host_prs,
                                        host_comments, order)
           /\ host_comments' =
                 CommentsAfter(dry_run, host_comments,
                     Written(ExtendedView(full_stack, host_prs, host_comments),
                             BranchesToUpdate(full_stack, submitted_branch_names,
                                              host_prs)))
    /\ pc' = "return"
    /\ UNCHANGED extraVars
    /\ UNCHANGED <<mode, dry_run, current_branch, full_stack, current_index,
                   branches_to_submit, pr_info, pr_urls, missing_prs,
                   exit_status, exit_reason, checked_out, remote_heads,
                   host_prs, codecVars, readerVars>>

\* "Return to initial branch", then the summary is printed
SubmitReturn ==
    /\ pc = "return"
    /\ checked_out' = current_branch
    /\ log' = Append(log, Cmd("checkout", current_branch, <<>>, TRUE, TRUE))
    /\ pc' = "done"
    /\ exit_status' = 0
    /\ UNCHANGED extraVars
    /\ UNCHANGED <<mode, dry_run, current_branch, full_stack, current_index,
                   branches_to_submit, pr_info, pr_urls, missing_prs,
                   exit_reason, remote_heads, host_prs, host_comments,
                   codecVars, readerVars>>

-----------------------------------------------------------------------------
(* The states submit_command starts in                                     *)

\* listings given to submit_command: every branch annotated the same way
SubmitListings ==
    { l \in Listings :
        /\ Len(l.names) >= 1
        /\ \A i \in 1..Len(l.names) : l.anns[i] = l.anns[1] /\ l.anns[i] # "wrapped" }

\* a branch merged earlier, whose pull request is closed
MERGED_BRANCH == <<"f", "z">>
MERGED_INFO == BranchInfo(PrUrl(OWNER, REPO, <<"9">>), MAIN, <<"z">>)

\* the branch below the branch at position i of names
ParentOf(names, i) == IF i = 1 THEN MAIN ELSE names[i - 1]

PositionIn(names, b) == CHOOSE i \in 1..Len(names) : names[i] = b

\* the open pull requests of the branches D of a stack
OpenPrs(names, D, bases_set) ==
    [b \in D |-> BranchInfo(BranchUrl(b),
                            IF bases_set THEN ParentOf(names, PositionIn(names, b))
                            ELSE MAIN,
                            BranchTitles[BranchIndex(b)])]

\* the stack comments an earlier submit left on the pull requests, written
\* when MERGED_BRANCH was still the bottom of the stack
EarlierComments(names, D, prs) ==
    LET earlier_stack == <<MERGED_BRANCH>>
                             \o SelectSeq(names, LAMBDA b : b \in D)
        earlier_info == get_pr_info(prs @@ (MERGED_BRANCH :> MERGED_INFO))
    IN  [b \in D |-> << <<"o", "k">>,
                        format_stack_comment(earlier_stack, earlier_info, b) >>]

InitSubmit ==
    /\ ExtraOff
    /\ CodecOff
    /\ spc = "off"
    /\ listing \in SubmitListings
    /\ output = ListingText(listing)
    /\ presult = [how |-> "none", stack |-> <<>>]
    /\ pc = "start"
    /\ mode \in Modes
    /\ dry_run \in BOOLEAN
    /\ current_branch = <<>>
    /\ full_stack = <<>>
    /\ current_index = 0
    /\ branches_to_submit = <<>>
    /\ pr_info = NoPrInfo
    /\ pr_urls = <<>>
    /\ missing_prs = <<>>
    /\ exit_status = -1
    /\ exit_reason = "none"
    /\ checked_out = IF listing.cur = 0 THEN MAIN ELSE listing.names[listing.cur]
    /\ \E D \in SUBSET Elems(listing.names), bases_set \in BOOLEAN,
          all_pushed \in BOOLEAN, earlier \in BOOLEAN :
        /\ host_prs = OpenPrs(listing.names, D, bases_set)
        /\ remote_heads = D \cup (IF all_pushed THEN Elems(listing.names) ELSE {})
        /\ host_comments = IF earlier
                           THEN EarlierComments(listing.names, D, host_prs)
                           ELSE [b \in D |-> <<>>]
    /\ log = <<>>

NextSubmit ==
    \/ SubmitValidateBranch
    \/ SubmitParseStack
    \/ SubmitSelectMode
    \/ SubmitPlan
    \/ SubmitGetInfo
    \/ SubmitBranch
    \/ SubmitAddStackComments
    \/ SubmitReturn

Init == InitSubmit

Next == NextSubmit

Spec == Init /\ [][Next]_vars

-----------------------------------------------------------------------------
(* add_stack_comments as a state machine: runs repeated on one stack       *)

\* the k-th smallest element of the set of positions S
KthOf(S, k) == CHOOSE i \in S : Cardinality({j \in S : j <= i}) = k

\* the lists of branches of a stack that may be given as submitted
SubmittedLists(stack) ==
    { [k \in 1..Cardinality(S) |-> stack[KthOf(S, k)]] :
        S \in SUBSET (1..Len(stack)) }

\* the title of a pull request that reverts another one
REVERT_TITLE == <<"R", " ", "\"", "z", " ", "(", "#", "9", ")", "\"">>

\* the open pull requests of the branches D, the one of the bottom branch
\* being a revert when reverting
RunPrs(names, D, reverting) ==
    [b \in D |-> BranchInfo(BranchUrl(b),
                            ParentOf(names, PositionIn(names, b)),
                            IF reverting /\ b = names[1] THEN REVERT_TITLE
                            ELSE BranchTitles[BranchIndex(b)])]

InitComments ==
    /\ CodecOff
    /\ ReaderOff
    /\ HistoryOff
    /\ MoreOff
    /\ pc = "off"
    /\ mode = "unset"
    /\ dry_run = FALSE
    /\ current_branch = <<>>
    /\ full_stack = <<>>
    /\ current_index = 0
    /\ branches_to_submit = <<>>
    /\ pr_info = NoPrInfo
    /\ pr_urls = <<>>
    /\ missing_prs = <<>>
    /\ exit_status = -1
    /\ exit_reason = "none"
    /\ checked_out = <<>>
    /\ remote_heads = {}
    /\ log = <<>>
    /\ apc = "ready"
    /\ \E n \in 0..MaxStack : astack = StackOfLen(n)
    /\ asubmitted \in SubmittedLists(astack)
    /\ adry \in BOOLEAN
    /\ \E D \in SUBSET Elems(astack), reverting \in BOOLEAN,
          earlier \in BOOLEAN :
        /\ host_prs = RunPrs(astack, D, reverting)
        /\ host_comments = IF earlier
                           THEN EarlierComments(astack, D, host_prs)
                           ELSE [b \in D |-> <<>>]
    /\ arun = NoRun
    /\ aprev = NoRunBefore
    /\ acount = 0

\* the loop over branches_to_update, given the view and the bodies that
\* the run computed from it
RunLoop(view, written) ==
    /\ \E order \in Orders(DOMAIN written) :
         arun' = RunRecord(astack, view, written,
                     RunCalls(astack, adry, host_prs, host_comments, order))
    /\ host_comments' = CommentsAfter(adry, host_comments, written)

RunWith(view, update) == RunLoop(view, Written(view, update))

\* add_stack_comments(astack, adry, asubmitted), run as a whole
AddStackComments ==
    /\ apc = "ready"
    /\ acount < MaxRuns
    /\ RunWith(ExtendedView(astack, host_prs, host_comments),
               BranchesToUpdate(astack, asubmitted, host_prs))
    /\ aprev' = [historical |-> arun.historical, written |-> arun.written]
    /\ acount' = acount + 1
    /\ UNCHANGED <<apc, astack, asubmitted, adry, historyVars, moreVars, runVars,
                   checked_out, remote_heads, host_prs, log, codecVars,
                   readerVars>>

NextComments == AddStackComments

SpecComments == InitComments /\ [][NextComments]_vars

-----------------------------------------------------------------------------
(* parse_historical_branches_from_comment as a state machine               *)

\* titles of the pull requests an earlier comment lists
HistoryTitles ==
    { <<"a">>, <<"a", " ", "&">>, <<"*", "*", "a">>,
      <<"a", " ", "(", "#", "1", "2", ")">> }

\* the directories under which earlier comments were formatted: every
\* branch of the stack has a pull request, one of them with a title of
\* HistoryTitles
EarlierDirectories(stack) ==
    { [owner |-> OWNER, repo |-> REPO,
       branches |-> [b \in Elems(stack) |->
                       BranchInfo(BranchUrl(b), MAIN,
                                  IF b = stack[k] THEN t
                                  ELSE BranchTitles[BranchIndex(b)])]] :
        k \in 1..Len(stack), t \in HistoryTitles }

\* comment bodies found on a pull request: none, text that is no stack
\* comment, and the stack comments formatted for earlier stacks, written to
\* the pull request of the bottom or of the top branch
HistoryBodies ==
    { <<>>, <<"o", "k">>,
      <<"x", "\n">> \o MAIN
          \o <<"\n", "+", " ", "a", " ", "(", "#", "9", ")">>
          \o <<"\n", "^", "-", " ", "a", " ", "(", "#", "7", ")">> }
    \cup UNION { { format_stack_comment(StackOfLen(n), d, StackOfLen(n)[c]) :
                     d \in EarlierDirectories(StackOfLen(n)), c \in {1, n} }
                 : n \in 1..MaxStack }

\* the directories of today: the branches L still have an open pull request
LiveDirectories ==
    { [owner |-> OWNER, repo |-> REPO,
       branches |-> [b \in L |-> BranchInfo(BranchUrl(b), MAIN, <<"t">>)]] :
        L \in SUBSET Elems(StackOfLen(MaxStack)) }

InitHistory ==
    /\ CodecOff
    /\ ReaderOff
    /\ SubmitOff
    /\ CommentRunOff
    /\ MoreOff
    /\ hpc = "input"
    /\ hbody \in HistoryBodies
    /\ hinfo \in LiveDirectories
    /\ hresult = NoHistory

ParseHistorical ==
    /\ hpc = "input"
    /\ hresult' = parse_historical_branches_from_comment(hbody, hinfo)
    /\ hpc' = "parsed"
    /\ UNCHANGED <<hbody, hinfo, commentRunVars, moreVars, codecVars, readerVars,
                   submitVars>>

NextHistory == ParseHistorical

SpecHistory == InitHistory /\ [][NextHistory]_vars

-----------------------------------------------------------------------------
(* filter_graphite_warnings                                                *)

WARNING_START == <<"W">>
WARNING_END == <<"T">>

\* str.splitlines() for text whose only line boundary is "\n"
SplitLines(s) ==
    IF s = <<>> THEN <<>>
    ELSE IF Last(Split(s, "\n")) = <<>>
    THEN SubSeq(Split(s, "\n"), 1, Len(Split(s, "\n")) - 1)
    ELSE Split(s, "\n")

\* a variant of FilteredLines that drops only the lines with the start marker
FilteredLinesStartOnly(ls, skip_mode) ==
    SelectSeq(ls, LAMBDA l : ~Contains(l, WARNING_START))

RECURSIVE FilteredLines(_, _)
\* filtered_lines after the loop has run over the lines ls, entered with
\* the given skip_mode
FilteredLines(ls, skip_mode) ==
    IF ls = <<>> THEN <<>>
    ELSE IF Contains(Head(ls), WARNING_START)
    THEN FilteredLines(Tail(ls), TRUE)
    ELSE IF skip_mode /\ Contains(Head(ls), WARNING_END)
    THEN FilteredLines(Tail(ls), FALSE)
    ELSE IF skip_mode THEN FilteredLines(Tail(ls), TRUE)
    ELSE <<Head(ls)>> \o FilteredLines(Tail(ls), FALSE)

filter_graphite_warnings(out) ==
    Strip(Join(<<"\n">>, FilteredLines(SplitLines(out), FALSE)))

\* the lines given to the filter
FilterLineSet ==
    { <<"x">>, <<" ", "y">>, WARNING_START \o <<"v">>, WARNING_END,
      WARNING_START \o WARNING_END, <<>> }

InitFilter ==
    /\ CodecOff
    /\ ReaderOff
    /\ SubmitOff
    /\ HistoryOff
    /\ CommentRunOff
    /\ CommandOff
    /\ SyncOff
    /\ MainOff
    /\ CacheOff
    /\ fpc = "input"
    /\ finput \in {Join(<<"\n">>, ls) : ls \in SeqsUpTo(FilterLineSet, MaxFilterLines)}
    /\ fresult = <<>>

Filter ==
    /\ fpc = "input"
    /\ fresult' = filter_graphite_warnings(finput)
    /\ fpc' = "filtered"
    /\ UNCHANGED <<finput, commandVars, syncVars, mainVars, cacheVars, historyVars, commentRunVars, codecVars,
                   readerVars, submitVars>>

NextFilter == Filter

SpecFilter == InitFilter /\ [][NextFilter]_vars

-----------------------------------------------------------------------------
(* run_command, called in turn for the commands of one operation           *)

\* the lines a child process may write to its standard output
ChildLineSet == { <<"x">>, <<"y">>, WARNING_START, WARNING_END }

\* a command: the lines its child writes and the status it exits with
Command(lines, status) == [lines |-> lines, status |-> status]

\* what follows the status of a command: exit(1) or the return
AfterStatusIgnored(returncode) == "return"

AfterStatus(returncode) == IF returncode # 0 THEN "exit" ELSE "return"

\* "".join(output_lines).strip(), filtered
OutputOf(output_lines) == filter_graphite_warnings(Strip(Flatten(output_lines)))

InitCommand ==
    /\ CodecOff
    /\ ReaderOff
    /\ SubmitOff
    /\ HistoryOff
    /\ CommentRunOff
    /\ FilterOff
    /\ SyncOff
    /\ MainOff
    /\ CacheOff
    /\ rpc = "start"
    /\ \E first \in SeqsUpTo(ChildLineSet, MaxWrites), s1, s2 \in {0, 1},
          second \in SeqsUpTo({<<"x">>}, 1) :
         rcmds = <<Command(first, s1), Command(second, s2)>>
    /\ rnow = 1
    /\ rtodo = <<>>
    /\ rpipe = <<>>
    /\ rexited = FALSE
    /\ rlines = <<>>
    /\ rreturned = <<>>
    /\ rstarts = <<0, 0>>
    /\ rexit = -1

CommandFrame ==
    UNCHANGED <<rcmds, filterVars, syncVars, mainVars, cacheVars, historyVars, commentRunVars, codecVars,
                readerVars, submitVars>>

\* subprocess.Popen(command, ...)
StartCommand ==
    /\ rpc = "start"
    /\ rstarts' = [rstarts EXCEPT ![rnow] = @ + 1]
    /\ rtodo' = rcmds[rnow].lines
    /\ rpipe' = <<>>
    /\ rexited' = FALSE
    /\ rlines' = <<>>
    /\ rpc' = "readline"
    /\ UNCHANGED <<rnow, rreturned, rexit>>
    /\ CommandFrame

\* the child writes its next line to the pipe
ChildWrite ==
    /\ rpc \in {"readline", "poll"}
    /\ rtodo # <<>>
    /\ rpipe' = Append(rpipe, Head(rtodo) \o <<"\n">>)
    /\ rtodo' = Tail(rtodo)
    /\ UNCHANGED <<rpc, rnow, rexited, rlines, rreturned, rstarts, rexit>>
    /\ CommandFrame

\* the child exits after its last write
ChildExit ==
    /\ rpc \in {"readline", "poll"}
    /\ rtodo = <<>>
    /\ ~rexited
    /\ rexited' = TRUE
    /\ UNCHANGED <<rpc, rnow, rtodo, rpipe, rlines, rreturned, rstarts, rexit>>
    /\ CommandFrame

\* stdout_line = process.stdout.readline(): blocks until a line is in the
\* pipe or the child has closed it; the empty string is not appended
ReadLine ==
    /\ rpc = "readline"
    /\ rpipe # <<>> \/ rexited
    /\ IF rpipe # <<>>
       THEN rlines' = Append(rlines, Head(rpipe)) /\ rpipe' = Tail(rpipe)
       ELSE UNCHANGED <<rlines, rpipe>>
    /\ rpc' = "poll"
    /\ UNCHANGED <<rnow, rtodo, rexited, rreturned, rstarts, rexit>>
    /\ CommandFrame

\* if process.poll() is not None: break
Poll ==
    /\ rpc = "poll"
    /\ rpc' = IF rexited THEN "wait" ELSE "readline"
    /\ UNCHANGED <<rnow, rtodo, rpipe, rexited, rlines, rreturned, rstarts,
                   rexit>>
    /\ CommandFrame

\* process.wait(), then exit(1) or the return of the filtered output; the
\* operation goes on to its next command or ends
FinishCommand ==
    /\ rpc = "wait"
    /\ IF AfterStatus(rcmds[rnow].status) = "exit"
       THEN /\ rexit' = 1
            /\ rpc' = "exited"
            /\ UNCHANGED <<rnow, rreturned>>
       ELSE /\ rreturned' = Append(rreturned, OutputOf(rlines))
            /\ IF rnow < Len(rcmds)
               THEN rnow' = rnow + 1 /\ rpc' = "start" /\ rexit' = rexit
               ELSE rnow' = rnow /\ rpc' = "done" /\ rexit' = 0
    /\ UNCHANGED <<rtodo, rpipe, rexited, rlines, rstarts>>
    /\ CommandFrame

NextCommand ==
    \/ StartCommand
    \/ ChildWrite
    \/ ChildExit
    \/ ReadLine
    \/ Poll
    \/ FinishCommand

SpecCommand == InitCommand /\ [][NextCommand]_vars

-----------------------------------------------------------------------------
(* sync_command                                                            *)

\* a command sync_command issued; ran is FALSE when a dry run only printed it
SyncCmd(op, branch, ran) == [op |-> op, branch |-> branch, ran |-> ran]

\* get_local_branches(): the branches `gt ls --classic` lists, without main
get_local_branches(branches) == branches \ {MAIN}

\* get_closed_pr_branches(): set(prs.split("\n"))
get_closed_pr_branches(prs) == Elems(Split(prs, "\n"))

\* str.lower() on the characters an answer is typed with
Lower(s) == [i \in 1..Len(s) |-> IF s[i] = "Y" THEN "y"
                                  ELSE IF s[i] = "N" THEN "n" ELSE s[i]]

\* a variant of Confirms that takes every answer as a yes
ConfirmsAlways(answer) == TRUE

\* delete == "y" or delete == "", for delete = input(...).strip().lower()
Confirms(answer) == Lower(Strip(answer)) \in {<<"y">>, <<>>}

\* "if initial_branch not in merged_branches": the test of step 7
ReturnsTo(initial_branch, merged_branches, branches) ==
    initial_branch \notin merged_branches

\* a variant of HasLocalChanges that never sees any
HasLocalChangesNever(status_output) == FALSE

\* the truth value of what run_command("git status --porcelain") returns
HasLocalChanges(status_output) == status_output # <<>>

\* what the operator may type at a prompt
Answers == { <<"y">>, <<" ", "Y">>, <<>>, <<"n">> }

\* what `git status --porcelain` prints
StatusOutputs == { <<>>, <<"M", " ", "f">> }

InitSync ==
    /\ CodecOff
    /\ ReaderOff
    /\ SubmitOff
    /\ HistoryOff
    /\ CommentRunOff
    /\ CommandOff
    /\ FilterOff
    /\ MainOff
    /\ CacheOff
    /\ ypc = "start"
    /\ ydry \in BOOLEAN
    /\ yskip \in BOOLEAN
    /\ ystatus \in StatusOutputs
    /\ \E n \in 0..MaxStack : ybranches = Elems(StackOfLen(n)) \cup {MAIN}
    /\ \E heads \in SUBSET (Elems(StackOfLen(MaxStack)) \cup {MAIN}) :
         yclosed = Join(<<"\n">>, SelectSeq(StackOfLen(MaxStack) \o <<MAIN>>,
                                            LAMBDA b : b \in heads))
    /\ yhead \in ybranches
    /\ yinitial = <<>>
    /\ ymerged = {}
    /\ yanswers = <<>>
    /\ ylog = <<>>
    /\ yexit = -1

SyncFrame ==
    UNCHANGED <<ydry, yskip, ystatus, yclosed, commandVars, filterVars, mainVars, cacheVars,
                historyVars, commentRunVars, codecVars, readerVars, submitVars>>

\* `git status --porcelain`: exit on local changes; else get_current_branch
SyncCheckStatus ==
    /\ ypc = "start"
    /\ IF HasLocalChanges(ystatus)
       THEN /\ ylog' = <<SyncCmd("status", <<>>, TRUE)>>
            /\ ypc' = "exit"
            /\ yexit' = 1
            /\ UNCHANGED yinitial
       ELSE /\ ylog' = <<SyncCmd("status", <<>>, TRUE),
                         SyncCmd("branch_show_current", <<>>, TRUE)>>
            /\ yinitial' = yhead
            /\ ypc' = "main"
            /\ UNCHANGED yexit
    /\ UNCHANGED <<ybranches, ymerged, yanswers, yhead>>
    /\ SyncFrame

\* Steps 1 to 4: checkout main and pull, the local branches, the heads of
\* the merged pull requests, the merged branches
SyncFetch ==
    /\ ypc = "main"
    /\ yhead' = MAIN
    /\ ylog' = ylog \o <<SyncCmd("checkout", MAIN, TRUE),
                         SyncCmd("pull", <<>>, TRUE),
                         SyncCmd("ls_classic", <<>>, TRUE),
                         SyncCmd("pr_list_merged", <<>>, TRUE)>>
    /\ ymerged' = get_local_branches(ybranches)
                      \cap get_closed_pr_branches(yclosed)
    /\ ypc' = "prompt"
    /\ UNCHANGED <<ybranches, yinitial, yanswers, yexit>>
    /\ SyncFrame

\* Step 5: one round of the loop over merged_branches
SyncPrompt ==
    /\ ypc = "prompt"
    /\ \E branch \in ymerged \ DOMAIN yanswers, answer \in Answers :
         /\ yanswers' = yanswers @@ (branch :> answer)
         /\ IF Confirms(answer)
            THEN /\ ylog' = Append(ylog, SyncCmd("delete", branch, ~ydry))
                 /\ ybranches' = IF ydry THEN ybranches ELSE ybranches \ {branch}
            ELSE UNCHANGED <<ylog, ybranches>>
    /\ UNCHANGED <<ypc, yinitial, ymerged, yhead, yexit>>
    /\ SyncFrame

\* Step 6: restack unless skipped
SyncRestack ==
    /\ ypc = "prompt"
    /\ ymerged \subseteq DOMAIN yanswers
    /\ ylog' = IF yskip THEN ylog
               ELSE Append(ylog, SyncCmd("restack", <<>>, ~ydry))
    /\ ypc' = "return"
    /\ UNCHANGED <<ybranches, yinitial, ymerged, yanswers, yhead, yexit>>
    /\ SyncFrame

\* Step 7: return to the initial branch
SyncReturn ==
    /\ ypc = "return"
    /\ IF ReturnsTo(yinitial, ymerged, ybranches)
       THEN /\ ylog' = Append(ylog, SyncCmd("checkout", yinitial, TRUE))
            /\ yhead' = yinitial
       ELSE UNCHANGED <<ylog, yhead>>
    /\ ypc' = "done"
    /\ yexit' = 0
    /\ UNCHANGED <<ybranches, yinitial, ymerged, yanswers>>
    /\ SyncFrame

NextSync ==
    \/ SyncCheckStatus
    \/ SyncFetch
    \/ SyncPrompt
    \/ SyncRestack
    \/ SyncReturn

SpecSync == InitSync /\ [][NextSync]_vars

-----------------------------------------------------------------------------
(* main, for the commands sync and submit                                  *)

\* create_sync_parser(): the option strings and the attribute each one sets
SyncOptions ==
    [ x \in {"-d", "--dry-run", "-sr", "--skip-restack"} |->
        IF x \in {"-d", "--dry-run"} THEN "dry_run" ELSE "skip_restack" ]

\* create_submit_parser()
SubmitOptions ==
    [ x \in {"-si", "-up", "-dn", "-w", "-d"} |->
        CASE x = "-si" -> "single"
          [] x = "-up" -> "upstack"
          [] x = "-dn" -> "downstack"
          [] x = "-w" -> "whole_stack"
          [] x = "-d" -> "dry_run" ]

\* the attributes of the mutually exclusive group of the submit parser
ModeGroup == {"single", "upstack", "downstack", "whole_stack"}

OptionsOf(command) == IF command = "sync" THEN SyncOptions ELSE SubmitOptions

\* the attributes the arguments argv set
SetBy(options, argv) ==
    {options[argv[i]] : i \in {j \in 1..Len(argv) : argv[j] \in DOMAIN options}}

\* parser.parse_args(argv): SystemExit for an argument that is not
\* recognised or for two options of the exclusive group, else the namespace
parse_args(options, argv) ==
    [ exits |-> \/ \E i \in 1..Len(argv) : argv[i] \notin DOMAIN options
                \/ Cardinality(SetBy(options, argv) \cap ModeGroup) > 1,
      args |-> [a \in {options[x] : x \in DOMAIN options} |->
                  a \in SetBy(options, argv)] ]

\* the attributes of args that main reads to call sync_command
SyncCallAttributes == {"dry_run", "skip_restack", "current_stack"}

\* the call main makes for the command, given the namespace args
CallOf(command, args) ==
    IF command = "sync"
    THEN [f |-> "sync_command", dry_run |-> args["dry_run"],
          skip_restack |-> args["skip_restack"], mode |-> "none"]
    ELSE [f |-> "submit_command", dry_run |-> args["dry_run"],
          skip_restack |-> FALSE,
          mode |-> IF args["single"] THEN "single"
                   ELSE IF args["upstack"] THEN "upstack"
                   ELSE IF args["downstack"] THEN "downstack"
                   ELSE IF args["whole_stack"] THEN "whole-stack"
                   ELSE "unset"]

\* a call with no arguments
Call0(f) == [f |-> f, dry_run |-> FALSE, skip_restack |-> FALSE, mode |-> "none"]

MainArguments ==
    { <<c, a>> \in {"sync", "submit"} \X SeqsUpTo({"-d", "--dry-run", "-sr",
                       "--skip-restack", "-si", "-up", "-w", "-x"}, MaxArgs) :
        \A i \in 1..Len(a) :
            a[i] \in DOMAIN OptionsOf(c) \cup {"-x"} }

InitMain ==
    /\ CodecOff
    /\ ReaderOff
    /\ SubmitOff
    /\ HistoryOff
    /\ CommentRunOff
    /\ CommandOff
    /\ FilterOff
    /\ SyncOff
    /\ CacheOff
    /\ mpc = "start"
    /\ \E ca \in MainArguments : mcommand = ca[1] /\ margv = ca[2]
    /\ menv \in [dir_ok : BOOLEAN, package_ok : BOOLEAN, notify : BOOLEAN]
    /\ mthread = "none"
    /\ mcalls = <<>>
    /\ mraised = "none"
    /\ mjoins = 0

MainFrame ==
    UNCHANGED <<mcommand, margv, menv, commandVars, filterVars, syncVars, cacheVars,
                historyVars, commentRunVars, codecVars, readerVars, submitVars>>

\* start_background_version_check(): should_check_version() loads the
\* cache, and get_cache_file_path() makes the cache directory outside any
\* try block; the thread is started when a check is due
MainStartCheck ==
    /\ mpc = "start"
    /\ mcalls' = Append(mcalls, Call0("start_background_version_check"))
    /\ IF ~menv.dir_ok
       THEN mraised' = "OSError" /\ mpc' = "raised" /\ UNCHANGED mthread
       ELSE /\ mthread' \in {"none", "running"}
            /\ mpc' = "parse"
            /\ UNCHANGED mraised
    /\ UNCHANGED mjoins
    /\ MainFrame

\* wait_for_version_check_and_notify(): one join with a timeout, then
\* display_update_notification(), which reads the wrapper version outside
\* any try block when the cache asks for a notification
WaitAndNotify(after, exception) ==
    /\ mcalls' = Append(mcalls, Call0("wait_for_version_check_and_notify"))
    /\ mjoins' = IF mthread = "none" THEN mjoins ELSE mjoins + 1
    /\ mthread' = "none"
    /\ IF menv.notify /\ ~menv.package_ok
       THEN mraised' = "Exception" /\ mpc' = "raised"
       ELSE mraised' = exception /\ mpc' = after

\* parser.parse_args(sys.argv[2:]); on SystemExit the notification is shown
\* and the exception raised again
MainParse ==
    /\ mpc = "parse"
    /\ IF parse_args(OptionsOf(mcommand), margv).exits
       THEN WaitAndNotify("raised", "SystemExit")
       ELSE mpc' = "call" /\ UNCHANGED <<mthread, mcalls, mraised, mjoins>>
    /\ MainFrame

\* the call of sync_command or submit_command with the parsed arguments
MainCall ==
    /\ mpc = "call"
    /\ IF mcommand = "sync"
          /\ ~(SyncCallAttributes
                 \subseteq DOMAIN parse_args(OptionsOf(mcommand), margv).args)
       THEN mraised' = "AttributeError" /\ mpc' = "raised" /\ UNCHANGED mcalls
       ELSE /\ mcalls' = Append(mcalls,
                  CallOf(mcommand, parse_args(OptionsOf(mcommand), margv).args))
            /\ mpc' = "wait"
            /\ UNCHANGED mraised
    /\ UNCHANGED <<mthread, mjoins>>
    /\ MainFrame

\* "Show update notification at the end of successful command execution"
MainWait ==
    /\ mpc = "wait"
    /\ WaitAndNotify("done", "none")
    /\ MainFrame

NextMain ==
    \/ MainStartCheck
    \/ MainParse
    \/ MainCall
    \/ MainWait

SpecMain == InitMain /\ [][NextMain]_vars

-----------------------------------------------------------------------------
(* check_for_updates_async run by several threads over one cache file      *)

\* What datetime.isoformat() gives: the date and the time to the second,
\* followed by the microseconds unless they are zero. "D" stands for a time
\* of today, "O" for a time more than a day ago, "u" for ".ffffff".
Stamps == {<<"D">>, <<"D", "u">>}
OldStamps == {<<"O">>, <<"O", "u">>}

\* The records the model keeps in the cache file
CacheRecords ==
    [last_check : Stamps \cup OldStamps,
     latest_version : {"1.0.6", "null"},
     show_notification : {"true", "false"}]

\* json.dump(cache_data, f): the text of the record, one element per token
Dump(cache_data) ==
    <<"{", "last_check">> \o cache_data.last_check
        \o <<",", "latest_version", cache_data.latest_version,
             ",", "show_notification", cache_data.show_notification, "}">>

\* load_version_cache: the record the file holds, {} when the file is
\* missing, empty, or not the text of one record
load_version_cache(file) == {d \in CacheRecords : Dump(d) = file}

\* should_check_version: no last_check in the cache, or one older than a day
should_check_version(file) ==
    \/ load_version_cache(file) = {}
    \/ \E d \in load_version_cache(file) : d.last_check \in OldStamps

\* parse_version inside compare_versions: the three numbers of the text
parse_version(v) ==
    CASE v = "1.0.5" -> <<1, 0, 5>>
      [] v = "1.0.6" -> <<1, 0, 6>>

\* compare_versions: the tuple of latest is greater than that of current
compare_versions(current, latest) ==
    LET c == parse_version(current)
        l == parse_version(latest)
    IN  \/ l[1] > c[1]
        \/ l[1] = c[1] /\ l[2] > c[2]
        \/ l[1] = c[1] /\ l[2] = c[2] /\ l[3] > c[3]

\* has_update in check_for_updates_async
HasUpdate(versions) ==
    /\ versions.latest # "null"
    /\ compare_versions(versions.current, versions.latest)

\* A write of data at offset 0 of a file opened without O_APPEND: the bytes
\* of the file beyond the end of data stay
Overwrite(file, data) == data \o SubSeq(file, Len(data) + 1, Len(file))

InitialFiles ==
    {<<>>, <<"{", "}">>}
        \cup {Dump([last_check |-> s, latest_version |-> "1.0.6",
                    show_notification |-> "false"]) :
                  s \in {<<"O", "u">>, <<"D", "u">>}}

InitCache ==
    /\ kpc = [t \in Threads |-> "check"]
    /\ kversions \in [current : {"1.0.5", "1.0.6"}, latest : {"1.0.6", "null"}]
    /\ kdata = [t \in Threads |-> <<>>]
    /\ kfile \in InitialFiles
    /\ ksaved = {}
    /\ CommandOff
    /\ FilterOff
    /\ SyncOff
    /\ MainOff
    /\ HistoryOff
    /\ CommentRunOff
    /\ CodecOff
    /\ ReaderOff
    /\ SubmitOff

CacheFrame ==
    UNCHANGED <<kversions, commandVars, filterVars, syncVars, mainVars,
                historyVars, commentRunVars, codecVars, readerVars, submitVars>>

\* A thread evaluates should_check_version() and returns when it is false
CacheCheck(t) ==
    /\ kpc[t] = "check"
    /\ kpc' = [kpc EXCEPT ![t] = IF should_check_version(kfile) THEN "data"
                                  ELSE "done"]
    /\ UNCHANGED <<kdata, kfile, ksaved>>
    /\ CacheFrame

\* A thread builds cache_data with the time of the moment
CacheData(t) ==
    /\ kpc[t] = "data"
    /\ \E stamp \in Stamps :
           kdata' = [kdata EXCEPT ![t] =
               Dump([last_check |-> stamp,
                     latest_version |-> kversions.latest,
                     show_notification |->
                         IF HasUpdate(kversions) THEN "true" ELSE "false"])]
    /\ kpc' = [kpc EXCEPT ![t] = "open"]
    /\ UNCHANGED <<kfile, ksaved>>
    /\ CacheFrame

\* save_version_cache: open(cache_file, "w") truncates the file
CacheOpen(t) ==
    /\ kpc[t] = "open"
    /\ kfile' = <<>>
    /\ kpc' = [kpc EXCEPT ![t] = "dump"]
    /\ UNCHANGED <<kdata, ksaved>>
    /\ CacheFrame

\* save_version_cache: json.dump fills the buffer of the file object and
\* leaving the with block writes it at the thread's own offset, 0
CacheClose(t) ==
    /\ kpc[t] = "dump"
    /\ kfile' = Overwrite(kfile, kdata[t])
    /\ ksaved' = ksaved \cup {t}
    /\ kpc' = [kpc EXCEPT ![t] = "done"]
    /\ UNCHANGED kdata
    /\ CacheFrame

NextCache ==
    \E t \in Threads :
        \/ CacheCheck(t)
        \/ CacheData(t)
        \/ CacheOpen(t)
        \/ CacheClose(t)

SpecCache == InitCache /\ [][NextCache]_vars

-----
(* Properties of the stack reader                                          *)

\* C1: for a listing of a trunk line and N >= 1 branch lines drawn with the
\* node glyphs and no branching glyph, parse_stack returns exactly the N
\* branch names in listing order, trunk removed, whether "(needs restack)"
\* follows a name on its line, is wrapped onto the next line, or is absent.
C1_ReturnsBranchNames ==
    ( /\ spc = "parsed"
      /\ listing.branching = "none"
      /\ Len(listing.names) >= 1 )
    => presult = [how |-> "return", stack |-> listing.names]

-----
(* Properties of submit_command                                            *)

\* the plan has been made
Planned == pc \in {"info", "submit", "return", "done"}
              \/ (pc = "exit" /\ exit_reason \in {"not_ready", "command_failed"})

\* the branch below branch b in the full stack, trunk below the first
BranchBelow(b) == ParentOf(full_stack, PositionIn(full_stack, b))

\* C2: every planned pair (position, branch) has full_stack[position] =
\* branch (positions counted from 0), and the base of every pull request
\* created or retargeted is the branch immediately below in the full stack,
\* trunk only for the branch at position 0.
C2_PlanPositions ==
    Planned =>
      /\ \A i \in 1..Len(branches_to_submit) :
            /\ branches_to_submit[i][1] + 1 \in 1..Len(full_stack)
            /\ full_stack[branches_to_submit[i][1] + 1] = branches_to_submit[i][2]
      /\ \A i \in 1..Len(log) :
            log[i].op \in {"pr_create", "pr_edit"}
              => log[i].base = BranchBelow(log[i].branch)

\* the sequence S[c], S[c..end], S[0..c] or S of the mode
ModeBranches ==
    LET c == PositionIn(full_stack, current_branch)
    IN  CASE mode = "single" -> <<current_branch>>
          [] mode = "upstack" -> SubSeq(full_stack, c, Len(full_stack))
          [] mode = "downstack" -> SubSeq(full_stack, 1, c)
          [] mode = "whole-stack" -> full_stack

\* the branches pushed so far, in the order of the pushes
PushedBranches ==
    LET pushes == SelectSeq(log, LAMBDA e : e.op \in {"push", "force_push"})
    IN  [i \in 1..Len(pushes) |-> pushes[i].branch]

IsPrefix(q, r) == Len(q) <= Len(r) /\ q = SubSeq(r, 1, Len(q))

\* C3: the branches planned are S[c] in single mode, S[c..end] in upstack
\* mode, S[0..c] in downstack mode and all of S in whole-stack mode, trunk
\* never among them; the branches are pushed in that order, and a run that
\* ends normally has pushed them all.
C3_SubmittedSequence ==
    Planned =>
      /\ [i \in 1..Len(branches_to_submit) |-> branches_to_submit[i][2]]
            = ModeBranches
      /\ \A i \in 1..Len(ModeBranches) : ModeBranches[i] # MAIN
      /\ IsPrefix(PushedBranches, ModeBranches)
      /\ IsPrefix([i \in 1..Len(pr_urls) |-> pr_urls[i][1]], ModeBranches)
      /\ pc \in {"return", "done"} => PushedBranches = ModeBranches

\* an upstack run from the middle of a stack of three ended normally
C3_Witness ==
    /\ pc = "done"
    /\ mode = "upstack"
    /\ Len(full_stack) = 3
    /\ current_branch = full_stack[2]
    /\ PushedBranches = <<full_stack[2], full_stack[3]>>

\* the directory has been fetched
InfoFetched == \E i \in 1..Len(log) : log[i].op = "pr_list"

\* the branches strictly below the current branch with no open pull request
MissingBelow ==
    SelectSeq(SubSeq(full_stack, 1, PositionIn(full_stack, current_branch) - 1),
              LAMBDA b : b \notin DOMAIN host_prs)

\* C4: in single or upstack mode, when a branch strictly below the current
\* branch has no open pull request, the run ends with a non-zero status
\* having listed exactly the missing branches and having issued no checkout,
\* push, pull request creation, base edit or comment write; no run ends that
\* way otherwise, so downstack and whole-stack runs are never rejected.
C4_ReadinessFailure ==
    InfoFetched =>
      IF mode \in {"single", "upstack"} /\ MissingBelow # <<>>
      THEN /\ pc = "exit"
           /\ exit_status # 0
           /\ exit_reason = "not_ready"
           /\ missing_prs = MissingBelow
           /\ \A i \in 1..Len(log) : log[i].op \notin MutatingOps
      ELSE /\ exit_reason # "not_ready"
           /\ missing_prs = <<>>

\* an upstack run from the top of a stack of three was rejected for its
\* middle branch alone
C4_Witness ==
    /\ pc = "exit"
    /\ exit_reason = "not_ready"
    /\ mode = "upstack"
    /\ Len(full_stack) = 3
    /\ current_branch = full_stack[3]
    /\ full_stack[1] \in DOMAIN host_prs
    /\ missing_prs = <<full_stack[2]>>

-----
(* Properties of the codec                                                 *)

\* the positions in s of the well-formed references  open digits close
WellFormedRefs(s) ==
    { p \in 1..Len(s) :
        /\ HasAt(s, p, PR_NUMBER_PREFIX)
        /\ \E k \in 1..Len(s) :
            /\ \A m \in (p + 2)..(p + 1 + k) : m <= Len(s) /\ IsDigit(s[m])
            /\ HasAt(s, p + 2 + k, PR_NUMBER_SUFFIX) }

\* the digits of the well-formed reference at position p of s
RefDigits(s, p) ==
    LET k == CHOOSE k \in 1..Len(s) :
                 /\ \A m \in (p + 2)..(p + 1 + k) : m <= Len(s) /\ IsDigit(s[m])
                 /\ HasAt(s, p + 2 + k, PR_NUMBER_SUFFIX)
    IN  SubSeq(s, p + 2, p + 1 + k)

\* a title with no white space around it and no reference inside it
CleanTitle(t) ==
    /\ Strip(t) = t
    /\ \A p \in WellFormedRefs(t) : p = 1 \/ ~IsSpace(t[p - 1])

StackNames == {cstack[i] : i \in 1..Len(cstack)}

\* the (PR number, title) pair the directory holds for the branch at i
DirectoryPair(i) ==
    << BranchPrNumber[BranchIndex(cstack[i])],
       cpr_info.branches[cstack[i]].title >>

\* C5: for a stack whose branches all have a directory record with a title
\* free of PR-number reference syntax, reading back the formatted comment
\* yields one entry per branch, equal to the directory's (PR number, title)
\* pairs in stack order.
C5_RoundTrip ==
    ( /\ cpc = "parsed"
      /\ ~anomaly
      /\ StackNames \subseteq DOMAIN cpr_info.branches
      /\ \A b \in StackNames : WellFormedRefs(cpr_info.branches[b].title) = {} )
    => centries = [i \in 1..Len(cstack) |-> DirectoryPair(i)]

C7_LineRoundTrip ==
    (lpc = "parsed" /\ largs # NoArgs /\ ~anomaly)
    => parsed = <<largs.pr_number, largs.pr_title>>

\* the number of tree-line glyphs that follow the connector of s
IndentLen(s) == RunLen(s, 2, TREE_LINES)

\* C8: on a line with more than one well-formed reference, the PR number is
\* taken from the last one and the title is everything between the
\* connector/indent and that last reference.
C8_LastReference ==
    ( /\ lpc = "parsed"
      /\ largs = NoArgs
      /\ line # <<>>
      /\ line = Strip(line)
      /\ line[1] \in {STACK_TREE_BRANCH, STACK_TREE_LAST}
      /\ Cardinality(WellFormedRefs(line)) > 1
      /\ \A i \in 1..Len(line) : ~HasAt(line, i, CURRENT_BRANCH_PREFIX)
      /\ parsed # None )
    => LET p == Max(WellFormedRefs(line))
       IN  parsed = << RefDigits(line, p),
                       Strip(SubSeq(line, 2 + IndentLen(line), p - 1)) >>

\* C9: an empty line, a line that does not start with a tree connector, and
\* a line with no well-formed reference (none at all, one with empty or
\* non-numeric contents, one whose open or close token is missing) parse to
\* None.
C9_MalformedIsNone ==
    ( /\ lpc = "parsed"
      /\ largs = NoArgs
      /\ \/ Strip(line) = <<>>
         \/ Strip(line)[1] \notin {STACK_TREE_BRANCH, STACK_TREE_LAST}
         \/ WellFormedRefs(line) = {} )
    => parsed = None

\* a line with a connector, a title and an opened reference that is never
\* closed was parsed
C9_Witness ==
    /\ lpc = "parsed"
    /\ largs = NoArgs
    /\ line # <<>>
    /\ line[1] = STACK_TREE_BRANCH
    /\ \E i \in 1..Len(line) :
         HasAt(line, i, <<"a", " ">> \o PR_NUMBER_PREFIX \o <<"1">>)
    /\ WellFormedRefs(line) = {}
    /\ parsed = None

\* C10: a line whose title is opened by the bold prefix and closed by a
\* plain bold suffix without the arrow parses to its PR number and its title
\* without the bold markers, and the entries read from a comment holding
\* such a line are those read from the comment as it was formatted.
C10_PlainBoldParses ==
    /\ (lpc = "parsed" /\ anomaly /\ CleanTitle(largs.pr_title))
         => parsed = <<largs.pr_number, largs.pr_title>>
    /\ (cpc = "parsed" /\ anomaly)
         => centries =
              CommentEntries(format_stack_comment(cstack, cpr_info, ccurrent))

\* a line closed by a plain bold suffix was parsed to its non-empty title
C10_Witness ==
    /\ lpc = "parsed"
    /\ anomaly
    /\ largs.pr_title # <<>>
    /\ CleanTitle(largs.pr_title)
    /\ EndsWith(line, PR_NUMBER_SUFFIX \o CURRENT_BRANCH_PREFIX)
    /\ parsed = <<largs.pr_number, largs.pr_title>>

-----
(* Properties of the formatter                                             *)

\* the line drawn for the entry at zero-based index i of n: the connector,
\* i horizontal-line glyphs, one space, then the text, wrapped in the bold
\* prefix and the arrow suffix when the entry is current
ShapedLine(i, n, text, cur) ==
    <<IF i = n - 1 THEN "^" ELSE "+">> \o [j \in 1..i |-> "-"] \o <<" ">>
        \o (IF cur THEN <<"*", "*">> \o text \o <<" ", "<", "~", "*", "*">>
            ELSE text)

\* title (#number)
TitleAndNumber(title, number) == title \o <<" ", "(", "#">> \o number \o <<")">>

\* the text of the entry at position i (from 1) of cstack
EntryText(i) ==
    IF cstack[i] \in DOMAIN cpr_info.branches
    THEN TitleAndNumber(cpr_info.branches[cstack[i]].title,
                        BranchPrNumber[BranchIndex(cstack[i])])
    ELSE TitleAndNumber(PR_PENDING, N_A)

\* C11: the line emitted for the entry at zero-based index i starts with
\* the last connector iff i is the final index and with the branch connector
\* otherwise, is followed by exactly i horizontal-line glyphs and one space,
\* and wraps  title (#number)  in the bold prefix and the arrow suffix iff
\* the entry is the current branch; the comment is the header, the trunk
\* line and these lines, one per entry.
C11_EntryLineShape ==
    /\ (lpc \in {"line", "parsed"} /\ largs # NoArgs /\ ~anomaly)
         => line = ShapedLine(largs.branch_index, largs.total_branches,
                       TitleAndNumber(largs.pr_title, largs.pr_number),
                       largs.is_current)
    /\ (cpc \in {"comment", "parsed"} /\ ~anomaly)
         => comment = STACK_COMMENT_PREFIX \o <<"\n">> \o MAIN
                \o Flatten([i \in 1..Len(cstack) |->
                       <<"\n">> \o ShapedLine(i - 1, Len(cstack), EntryText(i),
                                              cstack[i] = ccurrent)])

\* a comment of two or more entries was formatted, the last being current
C11_Witness ==
    /\ cpc = "comment"
    /\ ~anomaly
    /\ Len(cstack) >= 2
    /\ ccurrent = cstack[Len(cstack)]
    /\ EndsWith(comment, CURRENT_BRANCH_SUFFIX)

-----
(* Properties of parse_historical_branches_from_comment                    *)

\* the entries parsed from the lines of hbody after the header and trunk
HistoryEntries == CommentEntries(hbody)

\* the URL of the pull request an entry names
EntryUrl(e) == PrUrl(hinfo.owner, hinfo.repo, e[1])

\* the positions of the entries whose URL belongs to a live record
LiveEntries ==
    { i \in 1..Len(HistoryEntries) :
        \E b \in DOMAIN hinfo.branches :
            hinfo.branches[b].url = EntryUrl(HistoryEntries[i]) }

\* historical_<number>
HistoricalKey(e) == <<"h", "i", "s", "t", "o", "r", "i", "c", "a", "l", "_">> \o e[1]

\* C12: for a comment starting with the header and holding a live entry,
\* the branches returned are the entries strictly before the first live
\* entry, in comment order, each keyed historical_<number>, and the record
\* of each holds its URL, its title in the comment and the base main; no
\* entry at or after the pivot is returned.
C12_HistoryBeforePivot ==
    ( /\ hpc = "parsed"
      /\ StartsWith(hbody, STACK_COMMENT_PREFIX)
      /\ LiveEntries # {} )
    => LET pivot == Min(LiveEntries)
       IN  /\ hresult.branches =
                 [i \in 1..(pivot - 1) |-> HistoricalKey(HistoryEntries[i])]
           /\ DOMAIN hresult.info =
                 {HistoricalKey(HistoryEntries[i]) : i \in 1..(pivot - 1)}
           /\ \A i \in 1..(pivot - 1) :
                 hresult.info[HistoricalKey(HistoryEntries[i])] =
                   [url |-> EntryUrl(HistoryEntries[i]), base |-> MAIN,
                    title |-> HistoryEntries[i][2]]

\* C13: parse_historical_branches_from_comment returns an empty list and
\* an empty record map when the comment body is empty, does not start with
\* the header, or holds no entry whose URL is live in the directory.
C13_NoAnchorNoHistory ==
    ( /\ hpc = "parsed"
      /\ \/ hbody = <<>>
         \/ ~StartsWith(hbody, STACK_COMMENT_PREFIX)
         \/ LiveEntries = {} )
    => /\ hresult.branches = <<>>
       /\ DOMAIN hresult.info = {}

\* a stack comment with entries, none of them live, was read
C13_Witness ==
    /\ hpc = "parsed"
    /\ StartsWith(hbody, STACK_COMMENT_PREFIX)
    /\ Len(HistoryEntries) >= 2
    /\ LiveEntries = {}
    /\ hresult.branches = <<>>

-----
(* Properties of add_stack_comments                                        *)

\* C14: when add_stack_comments is run again (not as a dry run) with the
\* same stack, the same submitted branches and the same open pull requests,
\* the historical list derived equals the one derived by the run before and
\* the bodies written equal those written by the run before.
C14_FixedPoint ==
    (acount >= 2 /\ ~adry)
    => /\ arun.historical = aprev.historical
       /\ arun.written = aprev.written

\* the write commands of the last run, in order
RunWrites ==
    SelectSeq(arun.calls,
              LAMBDA e : e.op \in {"comment_create", "comment_update"})

\* the positions in the stack of the submitted branches
SubmittedPositions ==
    {i \in 1..Len(astack) : \E j \in 1..Len(asubmitted) : asubmitted[j] = astack[i]}

\* the submitted branches and the stack branches before the lowest
\* submitted one, as far as they have a pull request
ExpectedUpdates ==
    { b \in {asubmitted[j] : j \in 1..Len(asubmitted)}
            \cup (IF SubmittedPositions = {} THEN {}
                  ELSE {astack[i] : i \in 1..(Min(SubmittedPositions) - 1)}) :
        b \in DOMAIN host_prs }

\* C15: in one run the pull requests whose stack comment is written are
\* exactly the submitted branches and the stack branches before the lowest
\* submitted branch that have a pull request; each is written once.
C15_UpdateSet ==
    acount >= 1
    => /\ {RunWrites[i].branch : i \in 1..Len(RunWrites)} = ExpectedUpdates
       /\ Len(RunWrites) = Cardinality(ExpectedUpdates)
       /\ DOMAIN arun.written = ExpectedUpdates
       /\ \A i \in 1..Len(RunWrites) : RunWrites[i].ran = ~adry

\* the top of a stack of three was submitted and the comments of all three
\* pull requests were written
C15_Witness ==
    /\ acount >= 1
    /\ ~adry
    /\ Len(astack) = 3
    /\ asubmitted = <<astack[3]>>
    /\ Len(RunWrites) = 3

\* the lines of a body written in the last run
WrittenLines(b) == Split(arun.written[b], "\n")

\* where the text of an entry line starts, after connector, indent and space
TextStart(l) == 3 + RunLen(l, 2, TREE_LINES)

\* the line carries the current marker around its text
IsMarkedLine(l) ==
    /\ l # <<>>
    /\ l[1] \in {STACK_TREE_BRANCH, STACK_TREE_LAST}
    /\ HasAt(l, TextStart(l), CURRENT_BRANCH_PREFIX)
    /\ Len(l) >= TextStart(l) + Len(CURRENT_BRANCH_PREFIX)
                              + Len(CURRENT_BRANCH_SUFFIX) - 1
    /\ HasAt(l, Len(l) - Len(CURRENT_BRANCH_SUFFIX) + 1, CURRENT_BRANCH_SUFFIX)

\* the line without the current marker
UnmarkedLine(l) ==
    IF IsMarkedLine(l)
    THEN SubSeq(l, 1, TextStart(l) - 1)
           \o SubSeq(l, TextStart(l) + Len(CURRENT_BRANCH_PREFIX),
                     Len(l) - Len(CURRENT_BRANCH_SUFFIX))
    ELSE l

UnmarkedLines(ls) == [i \in 1..Len(ls) |-> UnmarkedLine(ls[i])]

MarkedAt(ls) == {i \in 1..Len(ls) : IsMarkedLine(ls[i])}

\* the line ends with the reference to the pull request of branch b, marked
EndsWithMarkedRef(l, b) ==
    LET tail == <<"(", "#">> \o BranchPrNumber[BranchIndex(b)] \o <<")">>
                    \o CURRENT_BRANCH_SUFFIX
    IN  Len(l) >= Len(tail) /\ HasAt(l, Len(l) - Len(tail) + 1, tail)

\* the lines ls carry one marker, on the entry of the pull request of b
OwnMarker(ls, b) ==
    /\ Cardinality(MarkedAt(ls)) = 1
    /\ \A i \in MarkedAt(ls) : EndsWithMarkedRef(ls[i], b)

\* C16: the bodies written in one run hold the same entries in the same
\* order and differ only in the current marker; each body carries the marker
\* on one entry, the one of the pull request the body is written to.
C16_SameEntriesOwnMarker ==
    acount >= 1
    => /\ Cardinality({UnmarkedLines(WrittenLines(b)) :
                          b \in DOMAIN arun.written}) <= 1
       /\ \A b \in DOMAIN arun.written : OwnMarker(WrittenLines(b), b)

\* two bodies were written in one run and they differ
C16_Witness ==
    /\ acount >= 1
    /\ \E b, c \in DOMAIN arun.written : arun.written[b] # arun.written[c]

\* C17: when the update set of a run is empty, the run writes no comment
\* and calls the code host only for the initial refresh of the directory.
C17_NothingToUpdateNoCalls ==
    (acount >= 1 /\ ExpectedUpdates = {})
    => /\ RunWrites = <<>>
       /\ \A i \in 1..Len(arun.calls) :
            arun.calls[i].op \in {"pr_list", "repo_view"}

\* the positions of the comments of a pull request that begin with the header
StackCommentsOf(cs) ==
    {i \in 1..Len(cs) : StartsWith(cs[i], STACK_COMMENT_PREFIX)}

\* a non-dry run took the comments of a written pull request from before to
\* after: created when there was none, else edited in place
CreatedOrEdited(before, after, op) ==
    IF StackCommentsOf(before) = {}
    THEN op = "comment_create" /\ Len(after) = Len(before) + 1
         /\ StackCommentsOf(after) = {Len(after)}
    ELSE op = "comment_update" /\ Len(after) = Len(before)
         /\ StackCommentsOf(after) = StackCommentsOf(before)

RunStep ==
    \A i \in 1..Len(arun'.calls) :
        arun'.calls[i].op \in {"comment_create", "comment_update"}
        => CreatedOrEdited(host_comments[arun'.calls[i].branch],
                           host_comments'[arun'.calls[i].branch],
                           arun'.calls[i].op)

\* C18: through any sequence of non-dry runs every pull request carries at
\* most one comment that begins with the header: a run creates a comment
\* only on a pull request that has none and otherwise edits the one found.
C18_OneStackComment ==
    /\ [](\A b \in DOMAIN host_comments :
            Cardinality(StackCommentsOf(host_comments[b])) <= 1)
    /\ [][~adry => RunStep]_vars

\* a second non-dry run edited the comment that the first run created
C18_Witness ==
    /\ acount = 2
    /\ ~adry
    /\ \E i \in 1..Len(arun.calls) :
         /\ arun.calls[i].op = "comment_update"
         /\ host_comments[arun.calls[i].branch]
              = <<arun.written[arun.calls[i].branch]>>

-----------------------------------------------------------------------------
(* Properties of the commands issued                                       *)

\* the commands of the log that change the code host or the repository,
\* executed or only printed
MutatingLogged == {i \in 1..Len(log) : log[i].op \in MutatingOps}

\* parse_stack has been called on the listing
StackParsed == presult.how # "none"

\* C19: a listing with a branching glyph on a line makes parse_stack end the
\* operation with an error and return no list, and submit_command ends there
\* before any checkout, push, pull request creation or edit, or comment write.
C19_BranchingIsFatal ==
    (StackParsed /\ listing.branching # "none")
    => /\ presult = [how |-> "exit", stack |-> <<>>]
       /\ pc = "exit"
       /\ exit_status = 1
       /\ full_stack = <<>>
       /\ branches_to_submit = <<>>
       /\ MutatingLogged = {}

\* the listing of two or more branches had the corner glyph on its last
\* line and submit_command has ended
C19_Witness ==
    /\ StackParsed
    /\ listing.branching = "corner"
    /\ Len(listing.names) >= 2
    /\ pc = "exit"

\* C20: in a dry run no command that changes the code host or the
\* repository is executed; each one is only printed.
C20_DryRunExecutesNoMutation ==
    dry_run => \A i \in MutatingLogged : ~log[i].ran

\* every command issued so far ended with status 0
AllCommandsOk == \A i \in 1..Len(log) : log[i].ok

\* the reasons for which submit_command refuses a stack before it submits
RefusedStack == {"trunk", "branching", "assertion", "not_in_stack", "not_ready"}

\* C21: a dry-run submit of a valid stack whose commands all succeed does
\* not end with an error, also when a planned branch has no pull request.
C21_DryRunCompletes ==
    (dry_run /\ pc = "exit" /\ AllCommandsOk) => exit_reason \in RefusedStack

-----------------------------------------------------------------------------
(* Properties of run_command                                               *)

\* the commands that were started
StartedCommands ==
    {i \in 1..Len(rcmds) : i < rnow \/ (i = rnow /\ rpc # "start")}

\* C22: every command is executed once, without retry; a non-zero status
\* ends the process with exit status 1 and no later command of the
\* operation is executed.
C22_OnceAndFatal ==
    rpc # "off"
    => /\ \A i \in 1..Len(rcmds) :
            rstarts[i] = IF i \in StartedCommands THEN 1 ELSE 0
       /\ \A i \in StartedCommands :
            rcmds[i].status # 0
            => /\ \A j \in (i + 1)..Len(rcmds) : rstarts[j] = 0
               /\ rpc \in {"readline", "poll", "wait", "exited"}
               /\ rpc = "exited" => rexit = 1
       /\ rexit = 1 => rpc = "exited"

\* the first command wrote a line, ended with a non-zero status, and the
\* process has exited without starting the second one
C22_Witness ==
    /\ rpc = "exited"
    /\ rnow = 1
    /\ rlines # <<>>
    /\ rstarts = <<1, 0>>

\* everything the child of command i writes to its standard output
WrittenBy(i) == Flatten([k \in 1..Len(rcmds[i].lines) |-> rcmds[i].lines[k] \o <<"\n">>])

\* C30: for a command that exits with status 0, run_command returns every
\* line the command wrote outside warning blocks, in order, however the
\* writes and the exit of the child interleave with the read loop.
C30_ReturnsEveryLine ==
    \A i \in 1..Len(rreturned) :
        rreturned[i] = filter_graphite_warnings(Strip(WrittenBy(i)))

-----------------------------------------------------------------------------
(* Properties of filter_graphite_warnings                                  *)

\* the lines of the input of the filter
InputLines == Split(finput, "\n")

IsStartLine(i) == Contains(InputLines[i], WARNING_START)

\* the line that ends the block started at line a: the next line after a
\* that contains the end marker; 0 when there is none
BlockEnd(a) ==
    IF \E e \in (a + 1)..Len(InputLines) : Contains(InputLines[e], WARNING_END)
    THEN Min({e \in (a + 1)..Len(InputLines) : Contains(InputLines[e], WARNING_END)})
    ELSE 0

\* line i lies in a warning block
InBlock(i) ==
    \E a \in 1..i : IsStartLine(a) /\ i <= BlockEnd(a)

\* the lines outside every block, in order
OutsideBlocks ==
    SelectSeq([i \in 1..Len(InputLines) |-> <<i, InputLines[i]>>],
              LAMBDA e : ~InBlock(e[1]))

\* C26: the filter returns exactly the input lines outside every warning
\* block, in order; a block runs from a line with the start marker through
\* the next line with the end marker; input without a start marker is
\* returned unchanged.
C26_ExactlyOutsideBlocks ==
    fpc = "filtered"
    => /\ fresult = Join(<<"\n">>, [i \in 1..Len(OutsideBlocks) |-> OutsideBlocks[i][2]])
       /\ (\A i \in 1..Len(InputLines) : ~IsStartLine(i)) => fresult = finput

\* a block that no end marker closes runs to the end of the input
BlockEndOrLast(a) == IF BlockEnd(a) = 0 THEN Len(InputLines) ELSE BlockEnd(a)

InBlockOrTail(i) ==
    \E a \in 1..i : IsStartLine(a) /\ i <= BlockEndOrLast(a)

KeptLines ==
    SelectSeq([i \in 1..Len(InputLines) |-> <<i, InputLines[i]>>],
              LAMBDA e : ~InBlockOrTail(e[1]))

\* C26, amended: the filter returns the input lines outside every warning
\* block, in order, joined by newlines and stripped of leading and trailing
\* whitespace; a block runs from a line with the start marker through the
\* next line with the end marker, or to the end of the input when no such
\* line follows.
C26_OutsideBlocksStripped ==
    fpc = "filtered"
    => fresult = Strip(Join(<<"\n">>, [i \in 1..Len(KeptLines) |-> KeptLines[i][2]]))

\* a closed block before a line that was kept
C26_Witness ==
    /\ fpc = "filtered"
    /\ Len(InputLines) = 3
    /\ IsStartLine(1)
    /\ InputLines[2] = WARNING_END
    /\ fresult = <<"x">>

-----------------------------------------------------------------------------
(* Properties of sync_command                                              *)

\* the positions in the log of sync_command of the commands with these names
SyncAt(ops) == {i \in 1..Len(ylog) : ylog[i].op \in ops}

\* C24: with local changes in the working tree sync_command exits with
\* status 1 and performs no checkout, pull, branch deletion or restack.
C24_LocalChangesStop ==
    (ypc \notin {"off", "start"} /\ ystatus # <<>>)
    => /\ ypc = "exit"
       /\ yexit = 1
       /\ SyncAt({"checkout", "pull", "delete", "restack"}) = {}
       /\ ylog = <<SyncCmd("status", <<>>, TRUE)>>
       /\ ybranches \in {Elems(StackOfLen(n)) \cup {MAIN} : n \in 0..MaxStack}

\* a branch other than main was checked out with local changes and
\* sync_command has exited
C24_Witness ==
    /\ ypc = "exit"
    /\ ystatus # <<>>
    /\ yhead # MAIN
    /\ yclosed # <<>>

\* the branches for which a deletion was issued, executed or printed
DeletionsAt == SyncAt({"delete"})

\* the deletion at position i of the log is of a local branch other than
\* main that heads a merged pull request, and lies after the checkout of
\* main and the pull and before the restack
DeletionInPlace(i) ==
    /\ ylog[i].branch # MAIN
    /\ ylog[i].branch \in Elems(StackOfLen(MaxStack))
    /\ ylog[i].branch \in ybranches \/ ~ydry
    /\ ylog[i].branch \in ymerged
    /\ \E k \in 1..Len(yclosed) : HasAt(yclosed, k, ylog[i].branch)
    /\ ylog[i].branch \in DOMAIN yanswers
    /\ \E c, q \in 1..(i - 1) :
         /\ c < q
         /\ ylog[c] = SyncCmd("checkout", MAIN, TRUE)
         /\ ylog[q].op = "pull"
    /\ \A r \in SyncAt({"restack"}) : i < r

\* C28: a branch is deleted only if it is a local branch, heads a merged
\* pull request and the operator answered its prompt with "y" or an empty
\* line; main is never deleted; deletions lie after the checkout of main and
\* the pull and before the restack.
C28_DeletesOnlyConfirmed ==
    \A i \in DeletionsAt :
        /\ DeletionInPlace(i)
        /\ yanswers[ylog[i].branch] \in {<<"y">>, <<>>}

\* C28, amended: as C28, the answer being compared after its surrounding
\* whitespace is removed and its letters are put in lower case.
C28_DeletesOnlyConfirmedAnyCase ==
    /\ \A i \in DeletionsAt :
         /\ DeletionInPlace(i)
         /\ Lower(Strip(yanswers[ylog[i].branch])) \in {<<"y">>, <<>>}
    /\ MAIN \in ybranches \/ ypc = "off"
    /\ \A b \in Elems(StackOfLen(MaxStack)) :
         (b \in DOMAIN yanswers /\ b \notin ybranches)
         => \E i \in DeletionsAt : ylog[i].branch = b /\ ylog[i].ran

\* one merged branch was deleted on a confirmation, another one was kept,
\* and restack has run
C28_Witness ==
    /\ ypc = "done"
    /\ ~ydry
    /\ \E b, c \in ymerged :
         /\ b \notin ybranches
         /\ c \in ybranches
         /\ yanswers[c] = <<"n">>
    /\ SyncAt({"restack"}) # {}

\* C29: when sync_command completes, the branch checked out is the one
\* that was checked out when it started, provided that branch still exists,
\* whatever the operator answered.
C29_ReturnsToInitialBranch ==
    (ypc = "done" /\ yinitial \in ybranches) => yhead = yinitial

-----------------------------------------------------------------------------
(* Properties of main                                                      *)

\* main has returned or an exception has left it
MainEnded == mpc \in {"done", "raised"}

\* the flag is on the command line in one of its spellings
Present(short, long) == \E i \in 1..Len(margv) : margv[i] \in {short, long}

\* C25: for sync with any combination of its recognised flags main starts
\* the background check, calls sync_command once with each keyword true
\* exactly when its flag is present, and then calls
\* wait_for_version_check_and_notify once.
C25_SyncCalledWithFlags ==
    ( /\ MainEnded
      /\ mcommand = "sync"
      /\ \A i \in 1..Len(margv) : margv[i] \in DOMAIN SyncOptions
      /\ menv.dir_ok /\ menv.package_ok )
    => mcalls = << Call0("start_background_version_check"),
                   [f |-> "sync_command",
                    dry_run |-> Present("-d", "--dry-run"),
                    skip_restack |-> Present("-sr", "--skip-restack"),
                    mode |-> "none"],
                   Call0("wait_for_version_check_and_notify") >>

\* C23: no failure in the update-check path makes main raise or keeps the
\* primary command from being called, and main joins the thread at most
\* once.
C23_UpdateCheckNeverFails ==
    /\ mraised \in {"none", "SystemExit", "AttributeError"}
    /\ mjoins <= 1
    /\ (MainEnded /\ ~parse_args(OptionsOf(mcommand), margv).exits
           /\ mcommand = "submit")
       => \E i \in 1..Len(mcalls) : mcalls[i].f = "submit_command"


\* C27: for any interleaving of several concurrent executions of
\* check_for_updates_async that observe the same current version and the same
\* newer latest version, once all have finished the cache file holds a
\* well-formed record with that latest_version, a last_check and
\* show_notification true.
C27_CacheWellFormed ==
    ( /\ \A t \in Threads : kpc[t] = "done"
      /\ ksaved # {}
      /\ HasUpdate(kversions) )
    => \E d \in load_version_cache(kfile) :
           /\ d.latest_version = kversions.latest
           /\ d.last_check \in Stamps
           /\ d.show_notification = "true"

====
